---- MODULE Spec2Model ----
(***************************************************************************)
(* repo-config: reconciliation of a checked-in schema of settings against  *)
(* the stored values of a project (internal/config).                       *)
(*                                                                         *)
(* Go strings are sequences of one-character strings, so that TrimSpace,   *)
(* ToLower, Atoi, Sprintf and Join are computed and not assumed.  Go maps  *)
(* are functions; the order in which `range` visits a map is unspecified   *)
(* and is a parameter (a permutation of the keys) wherever the code        *)
(* ranges over a map.                                                      *)
(***************************************************************************)
EXTENDS Integers, Sequences, FiniteSets, TLC

\* ------------------------------------------------------------------ bounds
\* lines on the input stream of a behaviour
MaxLines == 4
\* invocations of the program in a behaviour
MaxRuns == 2
\* modification times are 1..MaxTime; 0 is Go's zero time.Time
MaxTime == 2
\* characters a failing write puts into the file
MaxShort == 1
\* pairs of a stored-values file that saveConfig did not write
MaxPairs == 2

\* ----------------------------------------------------------------- strings
EmptyString == << >>

UpperChars == <<"A","B","C","D","E","F","G","H","I","J","K","L","M",
                "N","O","P","Q","R","S","T","U","V","W","X","Y","Z">>

LowerChars == <<"a","b","c","d","e","f","g","h","i","j","k","l","m",
                "n","o","p","q","r","s","t","u","v","w","x","y","z">>

DigitChars == <<"0","1","2","3","4","5","6","7","8","9">>

IndexOf(ch, table) == CHOOSE i \in 1..Len(table) : table[i] = ch

InTable(ch, table) == \E i \in 1..Len(table) : table[i] = ch

\* the byte of an ASCII character (the ones the model uses)
Code(ch) ==
    IF InTable(ch, UpperChars) THEN 64 + IndexOf(ch, UpperChars)
    ELSE IF InTable(ch, LowerChars) THEN 96 + IndexOf(ch, LowerChars)
    ELSE IF InTable(ch, DigitChars) THEN 47 + IndexOf(ch, DigitChars)
    ELSE CASE ch = "\t" -> 9
           [] ch = "\n" -> 10
           [] ch = "\r" -> 13
           [] ch = " "  -> 32
           [] ch = "+"  -> 43
           [] ch = "-"  -> 45
           [] ch = "="  -> 61

\* unicode.IsSpace on ASCII
IsSpace(ch) == ch \in {" ", "\t", "\n", "\r", "\f"}

RECURSIVE TrimLeft(_)
TrimLeft(s) ==
    IF s # << >> /\ IsSpace(Head(s)) THEN TrimLeft(Tail(s)) ELSE s

RECURSIVE TrimRight(_)
TrimRight(s) ==
    IF s # << >> /\ IsSpace(s[Len(s)])
    THEN TrimRight(SubSeq(s, 1, Len(s) - 1))
    ELSE s

\* a line that is taken as it was typed
TrimSpace_None(s) == s

\* strings.TrimSpace
TrimSpace(s) == TrimRight(TrimLeft(s))

ToLowerChar(ch) ==
    IF InTable(ch, UpperChars) THEN LowerChars[IndexOf(ch, UpperChars)] ELSE ch

\* strings.ToLower
ToLower(s) == [i \in 1..Len(s) |-> ToLowerChar(s[i])]

RECURSIVE DigitsValue(_)
DigitsValue(s) ==
    IF s = << >> THEN 0
    ELSE 10 * DigitsValue(SubSeq(s, 1, Len(s) - 1))
         + (IndexOf(s[Len(s)], DigitChars) - 1)

AllDigits(s) == s # << >> /\ \A i \in 1..Len(s) : InTable(s[i], DigitChars)

\* strconv.Atoi: an optional sign, then one or more decimal digits
Atoi(s) ==
    LET signed == s # << >> /\ Head(s) \in {"+", "-"}
        digits == IF signed THEN Tail(s) ELSE s
    IN  IF AllDigits(digits)
        THEN [err |-> FALSE,
              value |-> IF signed /\ Head(s) = "-"
                        THEN 0 - DigitsValue(digits)
                        ELSE DigitsValue(digits)]
        ELSE [err |-> TRUE, value |-> 0]

\* byte-wise comparison of strings, as sort.Strings uses
RECURSIVE StrLess(_, _)
StrLess(a, b) ==
    IF b = << >> THEN FALSE
    ELSE IF a = << >> THEN TRUE
    ELSE IF Code(Head(a)) # Code(Head(b)) THEN Code(Head(a)) < Code(Head(b))
    ELSE StrLess(Tail(a), Tail(b))

\* the sequences that enumerate a finite set once each: the orders in which
\* `range` may visit a map with these keys
RECURSIVE Perms(_)
Perms(S) ==
    IF S = {} THEN { << >> }
    ELSE UNION { { <<x>> \o p : p \in Perms(S \ {x}) } : x \in S }

\* sort.Strings on a set of distinct keys
\* a sort in descending byte order
SortStrings_Descending(S) ==
    CHOOSE p \in Perms(S) :
        \A i \in 1..Len(p) : \A j \in 1..Len(p) : i < j => StrLess(p[j], p[i])

\* a sort that compares the keys without regard to case
SortStrings_FoldCase(S) ==
    CHOOSE p \in Perms(S) :
        \A i \in 1..Len(p) : \A j \in 1..Len(p) :
            i < j => StrLess(ToLower(p[i]), ToLower(p[j]))

SortStrings(S) ==
    CHOOSE p \in Perms(S) :
        \A i \in 1..Len(p) : \A j \in 1..Len(p) : i < j => StrLess(p[i], p[j])

\* strings.Join
RECURSIVE Join(_, _)
Join(lines, sep) ==
    IF lines = << >> THEN << >>
    ELSE IF Len(lines) = 1 THEN lines[1]
    ELSE lines[1] \o sep \o Join(Tail(lines), sep)

\* fmt.Sprintf("%s=%s", name, value)
EnvLine(name, value) == name \o <<"=">> \o value

\* ------------------------------------------------------------ data model
\* the schema keys and stored names of the model; "B" sorts before "a"
Keys == { <<"B">>, <<"a">> }

\* ItemConfig
ItemConfig(description, shellScript, default, envName, requiredAsEnv) ==
    [Description |-> description,
     ShellScript |-> shellScript,
     Default |-> default,
     TempEnvironmentVariableName |-> envName,
     RequiredAsEnv |-> requiredAsEnv]

EmptyMap == [k \in {} |-> << >>]

\* m[k] = v of a Go map
Put(m, k, v) == [x \in DOMAIN m \cup {k} |-> IF x = k THEN v ELSE m[x]]

\* a file that os.Stat finds
Exists(file) == file.state # "absent"

\* --------------------------------------------------------- pure functions
\* loadConfigFile: the decoded schema, or an error for a file that does not
\* open or does not decode
loadConfigFile(file) ==
    IF file.state = "ok"
    THEN [err |-> FALSE, configMap |-> file.items]
    ELSE [err |-> TRUE, configMap |-> EmptyMap]

\* a loop that keeps the first Value of a Name
RECURSIVE PairsToMap_FirstWins(_, _)
PairsToMap_FirstWins(pairs, existingValues) ==
    IF pairs = << >> THEN existingValues
    ELSE PairsToMap_FirstWins(
             Tail(pairs),
             IF Head(pairs).Name \in DOMAIN existingValues
             THEN existingValues
             ELSE Put(existingValues, Head(pairs).Name, Head(pairs).Value))

\* the loop of loadExistingValues: existingValues[pair["Name"]] = pair["Value"]
RECURSIVE PairsToMap(_, _)
PairsToMap(pairs, existingValues) ==
    IF pairs = << >> THEN existingValues
    ELSE PairsToMap(Tail(pairs),
                    Put(existingValues, Head(pairs).Name, Head(pairs).Value))

\* a load that takes a file it cannot decode for an empty store
loadExistingValues_Lenient(file) ==
    [err |-> FALSE, existingValues |-> PairsToMap(file.pairs, EmptyMap)]

\* loadExistingValues: a JSON null decodes to the nil slice
loadExistingValues(file) ==
    IF file.state \in {"array", "null"}
    THEN [err |-> FALSE, existingValues |-> PairsToMap(file.pairs, EmptyMap)]
    ELSE [err |-> TRUE, existingValues |-> EmptyMap]

\* a merge that fills in blank defaults only
updateConfigMapWithExistingValues_BlankOnly(configMap, existingValues) ==
    [key \in DOMAIN configMap |->
        IF key \in DOMAIN existingValues /\ configMap[key].Default = << >>
        THEN [configMap[key] EXCEPT !.Default = existingValues[key]]
        ELSE configMap[key]]

\* a merge that lets a declared default stand when the stored value is empty
updateConfigMapWithExistingValues_SkipEmpty(configMap, existingValues) ==
    [key \in DOMAIN configMap |->
        IF key \in DOMAIN existingValues /\ existingValues[key] # << >>
        THEN [configMap[key] EXCEPT !.Default = existingValues[key]]
        ELSE configMap[key]]

\* updateConfigMapWithExistingValues: every iteration writes its own key only
updateConfigMapWithExistingValues(configMap, existingValues) ==
    [key \in DOMAIN configMap |->
        IF key \in DOMAIN existingValues
        THEN [configMap[key] EXCEPT !.Default = existingValues[key]]
        ELSE configMap[key]]

\* a comparison without the first loop
compareConfigs_DeletedOnly(configMap, existingValues) ==
    \E key \in DOMAIN existingValues : key \notin DOMAIN configMap

\* a comparison without the second loop
compareConfigs_NewOnly(configMap, existingValues) ==
    \E key \in DOMAIN configMap : key \notin DOMAIN existingValues

\* compareConfigs: the two loops, each setting hasChanges and breaking
compareConfigs(configMap, existingValues) ==
    LET newSetting == \E key \in DOMAIN configMap :
                          key \notin DOMAIN existingValues
        deletedSetting == \E key \in DOMAIN existingValues :
                              key \notin DOMAIN configMap
    IN  newSetting \/ deletedSetting

\* checkForMissingValues: the keys appended while ranging over configMap in
\* the order `order`
RECURSIVE MissingLoop(_, _, _)
MissingLoop(configMap, order, missingValues) ==
    IF order = << >> THEN missingValues
    ELSE MissingLoop(configMap, Tail(order),
                     IF configMap[Head(order)].Default = << >>
                     THEN Append(missingValues, Head(order))
                     ELSE missingValues)

\* a check that stops at the first blank default
checkForMissingValues_FirstOnly(configMap, order) ==
    LET all == MissingLoop(configMap, order, << >>)
    IN  IF all = << >> THEN all ELSE << Head(all) >>

checkForMissingValues(configMap, order) == MissingLoop(configMap, order, << >>)

\* a comparison of times that is not strict
After_NotBefore(t, u) == t >= u

\* time.Time.After
After(t, u) == t > u

\* a decision whose up-to-date branch never looks for blank defaults
CollectDecision_NoMissingCheck(silent, outputFileExists, inputJSONModTime, outputJSONModTime, configMap, existingValues, order) ==
    IF silent
    THEN IF ~outputFileExists \/ After(inputJSONModTime, outputJSONModTime)
         THEN IF compareConfigs(configMap, existingValues)
              THEN "interactive" ELSE "save"
         ELSE "return"
    ELSE "interactive"

\* a decision that compares the key sets whatever the age of the store
CollectDecision_CompareFirst(silent, outputFileExists, inputJSONModTime, outputJSONModTime, configMap, existingValues, order) ==
    IF silent
    THEN IF compareConfigs(configMap, existingValues) THEN "interactive"
         ELSE IF ~outputFileExists
                 \/ After(inputJSONModTime, outputJSONModTime)
         THEN "save"
         ELSE IF Len(checkForMissingValues(configMap, order)) > 0
         THEN "interactive" ELSE "return"
    ELSE "interactive"

\* a decision that takes every invocation for a silent one
CollectDecision_IgnoresFlag(silent, outputFileExists, inputJSONModTime, outputJSONModTime, configMap, existingValues, order) ==
    IF ~outputFileExists \/ After(inputJSONModTime, outputJSONModTime)
    THEN IF compareConfigs(configMap, existingValues)
         THEN "interactive" ELSE "save"
    ELSE IF Len(checkForMissingValues(configMap, order)) > 0
    THEN "interactive" ELSE "return"

\* a decision whose up-to-date branch saves when the key sets differ
CollectDecision_SavesOnDifference(silent, outputFileExists, inputJSONModTime, outputJSONModTime, configMap, existingValues, order) ==
    IF silent
    THEN IF ~outputFileExists \/ After(inputJSONModTime, outputJSONModTime)
         THEN IF compareConfigs(configMap, existingValues)
              THEN "interactive" ELSE "save"
         ELSE IF Len(checkForMissingValues(configMap, order)) > 0
         THEN "interactive"
         ELSE IF compareConfigs(configMap, existingValues)
         THEN "save" ELSE "return"
    ELSE "interactive"

\* a decision whose stale branch prompts when a default is blank
CollectDecision_PromptsOnBlank(silent, outputFileExists, inputJSONModTime, outputJSONModTime, configMap, existingValues, order) ==
    IF silent
    THEN IF ~outputFileExists \/ After(inputJSONModTime, outputJSONModTime)
         THEN IF compareConfigs(configMap, existingValues)
                 \/ Len(checkForMissingValues(configMap, order)) > 0
              THEN "interactive" ELSE "save"
         ELSE IF Len(checkForMissingValues(configMap, order)) > 0
         THEN "interactive" ELSE "return"
    ELSE "interactive"

\* a decision whose up-to-date branch saves the blank defaults
CollectDecision_SavesBlank(silent, outputFileExists, inputJSONModTime, outputJSONModTime, configMap, existingValues, order) ==
    IF silent
    THEN IF ~outputFileExists \/ After(inputJSONModTime, outputJSONModTime)
         THEN IF compareConfigs(configMap, existingValues)
              THEN "interactive" ELSE "save"
         ELSE IF Len(checkForMissingValues(configMap, order)) > 0
         THEN "save" ELSE "return"
    ELSE "interactive"

\* the branches of CollectConfig after the merge: "interactive", "save" or
\* "return"
CollectDecision(silent, outputFileExists, inputJSONModTime, outputJSONModTime, configMap, existingValues, order) ==
    IF silent
    THEN IF ~outputFileExists \/ After(inputJSONModTime, outputJSONModTime)
         THEN IF compareConfigs(configMap, existingValues)
              THEN "interactive"
              ELSE "save"
         ELSE IF Len(checkForMissingValues(configMap, order)) > 0
              THEN "interactive"
              ELSE "return"
    ELSE "interactive"

\* ---------------------------------------------------------------- saving
\* the name-value pairs appended while ranging over configMap in `order`
\* pairs that carry the description of the item as its value
NameValuePairs_Descriptions(configMap, order) ==
    [i \in 1..Len(order) |->
        [Name |-> order[i], Value |-> configMap[order[i]].Description]]

\* pairs for the items with a default only
NameValuePairs_SkipBlank(configMap, order) ==
    LET kept == SelectSeq(order, LAMBDA k : configMap[k].Default # << >>)
    IN  [i \in 1..Len(kept) |->
            [Name |-> kept[i], Value |-> configMap[kept[i]].Default]]

NameValuePairs(configMap, order) ==
    [i \in 1..Len(order) |->
        [Name |-> order[i], Value |-> configMap[order[i]].Default]]

\* a line for every item, named or not
EnvLines_Unfiltered(configMap, order) ==
    [i \in 1..Len(order) |->
        EnvLine(configMap[order[i]].TempEnvironmentVariableName,
                configMap[order[i]].Default)]

\* the lines appended while ranging over configMap in `order`
RECURSIVE EnvLines(_, _)
EnvLines(configMap, order) ==
    IF order = << >> THEN << >>
    ELSE LET item == configMap[Head(order)]
         IN  (IF item.TempEnvironmentVariableName # << >>
              THEN << EnvLine(item.TempEnvironmentVariableName, item.Default) >>
              ELSE << >>)
             \o EnvLines(configMap, Tail(order))

\* what json.Encoder writes for nameValuePairs: null for the nil slice
EncodePairs(pairs) ==
    IF pairs = << >>
    THEN [state |-> "null", pairs |-> << >>]
    ELSE [state |-> "array", pairs |-> pairs]

\* the faults of the file system: os.Create of the store or of the
\* environment file fails, or the write that follows it fails
Faults == { "json", "jsonWrite", "env", "envWrite" }

\* the shorter of two lengths
Min(a, b) == IF a < b THEN a ELSE b

\* a store write that keeps the value the store holds for a name
WriteJSON_KeepsStored(pairs, json, denied) ==
    IF "json" \in denied THEN [err |-> TRUE, json |-> json]
    ELSE IF "jsonWrite" \in denied
    THEN [err |-> TRUE, json |-> [state |-> "malformed", pairs |-> << >>]]
    ELSE IF json.state = "array"
    THEN LET held(name) == { i \in 1..Len(json.pairs) :
                                 json.pairs[i].Name = name }
         IN  [err |-> FALSE,
              json |-> [state |-> "array",
                        pairs |-> [i \in 1..Len(pairs) |->
                            IF held(pairs[i].Name) = {} THEN pairs[i]
                            ELSE json.pairs[CHOOSE j \in held(pairs[i].Name) :
                                                TRUE]]]]
    ELSE [err |-> FALSE, json |-> [state |-> "array", pairs |-> pairs]]

\* a store that is opened for appending and keeps the pairs it held
WriteJSON_Appends(pairs, json, denied) ==
    IF "json" \in denied THEN [err |-> TRUE, json |-> json]
    ELSE IF "jsonWrite" \in denied
    THEN [err |-> TRUE, json |-> [state |-> "malformed", pairs |-> << >>]]
    ELSE IF json.state = "array"
    THEN [err |-> FALSE,
          json |-> [state |-> "array", pairs |-> json.pairs \o pairs]]
    ELSE [err |-> FALSE, json |-> EncodePairs(pairs)]

\* os.Create(jsonOutputFile) and jsonEncoder.Encode: a file that cannot be
\* created is left as it was; a write that fails leaves the truncated file
\* with a document that is cut short
WriteJSON(pairs, json, denied) ==
    IF "json" \in denied THEN [err |-> TRUE, json |-> json]
    ELSE IF "jsonWrite" \in denied
    THEN [err |-> TRUE, json |-> [state |-> "malformed", pairs |-> << >>]]
    ELSE [err |-> FALSE, json |-> EncodePairs(pairs)]

\* an environment-file step that reports no failure
WriteEnv_NoError(envLines, env, denied, short) ==
    IF Len(envLines) > 0 /\ denied \cap {"env", "envWrite"} = {}
    THEN [err |-> FALSE,
          env |-> [exists |-> TRUE, content |-> Join(envLines, <<"\n">>)]]
    ELSE [err |-> FALSE, env |-> env]

\* an environment-file step that writes the file whatever the lines
WriteEnv_Always(envLines, env, denied, short) ==
    IF "env" \in denied THEN [err |-> TRUE, env |-> env]
    ELSE [err |-> FALSE,
          env |-> [exists |-> TRUE, content |-> Join(envLines, <<"\n">>)]]

\* the environment-file step of saveConfig: nothing for no line; os.Create
\* truncates the file, and a WriteString that fails has written at most
\* `short` characters, never all of them
WriteEnv(envLines, env, denied, short) ==
    IF Len(envLines) = 0 THEN [err |-> FALSE, env |-> env]
    ELSE IF "env" \in denied THEN [err |-> TRUE, env |-> env]
    ELSE LET envContent == Join(envLines, <<"\n">>)
         IN  IF "envWrite" \in denied
             THEN [err |-> TRUE,
                   env |-> [exists |-> TRUE,
                            content |-> SubSeq(envContent, 1,
                                            Min(short, Len(envContent) - 1))]]
             ELSE [err |-> FALSE,
                   env |-> [exists |-> TRUE, content |-> envContent]]

\* how many characters a WriteString that fails may have written; without
\* that fault the number plays no part
ShortWrites(faults) == IF "envWrite" \in faults THEN 0..MaxShort ELSE {0}

\* saveConfig with the two ranges over configMap visiting it in jsonOrder and
\* envOrder; files = [json, env, time], denied = the faults that happen
saveConfig(configMap, jsonOrder, envOrder, files, denied, clock, short) ==
    LET store == WriteJSON(NameValuePairs(configMap, jsonOrder), files.json,
                           denied)
        envFile == WriteEnv(EnvLines(configMap, envOrder), files.env, denied,
                            short)
    IN  IF store.err
        THEN [err |-> TRUE, json |-> store.json, env |-> files.env,
              time |-> IF "json" \in denied THEN files.time ELSE clock]
        ELSE [err |-> envFile.err, json |-> store.json, env |-> envFile.env,
              time |-> clock]

\* ------------------------------------------------------------------ state
VARIABLES
    inputFile,      \* the schema file: [state, items]
    inputModTime,   \* its modification time
    jsonOutput,     \* the stored-values file: [state, pairs]
    outputModTime,  \* its modification time, 0 when absent
    envOutput,      \* the environment file: [exists, content]
    denied,         \* the faults of the file system that happen
    now,            \* the time at which the invocations run
    limit,          \* the number of invocations of the behaviour
    stdin,          \* the lines still to be read from the input stream
    pc,             \* "idle", or where interactiveConfig waits: "prompt",
                    \* "value", or promptAndDeleteFiles: "confirm"
    silent,         \* the silent flag of the invocation
    configMap,      \* the schema in memory
    keys,           \* the sorted keys of interactiveConfig
    key,            \* the key selected by the last valid index
    result,         \* what the last invocation returned: "none", "ok", "error"
    entered,        \* the invocation called interactiveConfig
    hist,           \* the lines the invocation has read
    called,         \* the calls of saveConfig in the invocation
    saved,          \* those of them that returned nil
    start,          \* the output files when the invocation began
    log,            \* one record per finished invocation
    args,           \* the arguments of a function called on its own
    out,            \* what it returned
    stdout          \* what internal/config has written to standard output

vars == << inputFile, inputModTime, jsonOutput, outputModTime, envOutput,
           denied, now, limit, stdin, pc, silent, configMap, keys, key, result,
           entered, hist, called, saved, start, log, args, out, stdout >>

\* what no invocation of CollectConfig writes; all it prints goes to
\* os.Stderr
fileVars ==
    << inputFile, inputModTime, denied, now, limit, args, out, stdout >>

Files == [json |-> jsonOutput, env |-> envOutput, time |-> outputModTime]

\* the record an invocation leaves in the log when it returns
LogEntry(sil, ent, res, h, sv) ==
    [silent |-> sil, entered |-> ent, result |-> res, read |-> Len(h),
     saved |-> sv, clock |-> now]

\* ---------------------------------------------------------------- actions
\* an invocation returns `res`, leaving the output files as `end`
Return(sil, ent, res, h, sv, end) ==
    /\ pc' = "idle"
    /\ result' = res
    /\ jsonOutput' = end.json
    /\ envOutput' = end.env
    /\ outputModTime' = end.time
    /\ log' = Append(log, LogEntry(sil, ent, res, h, sv))

\* CollectConfig(inputJSONFile, sil) up to its return or to the first read
\* of interactiveConfig
CollectConfig(sil) ==
    /\ pc = "idle"
    /\ Len(log) < limit
    /\ silent' = sil
    /\ start' = Files
    /\ hist' = << >>
    /\ key' = << >>
    /\ UNCHANGED << fileVars, stdin >>
    /\ LET loaded == loadConfigFile(inputFile)
           outputFileExists == Exists(jsonOutput)
           existing == IF outputFileExists
                       THEN loadExistingValues(jsonOutput)
                       ELSE [err |-> FALSE, existingValues |-> EmptyMap]
           merged == updateConfigMapWithExistingValues(
                         loaded.configMap, existing.existingValues)
       IN  IF loaded.err \/ existing.err
           THEN /\ Return(sil, FALSE, "error", << >>, 0, Files)
                /\ entered' = FALSE
                /\ called' = 0
                /\ saved' = 0
                /\ configMap' = EmptyMap
                /\ keys' = << >>
           ELSE \E order \in Perms(DOMAIN merged) :
                LET decision == CollectDecision(sil, outputFileExists,
                                    inputModTime, outputModTime, merged,
                                    existing.existingValues, order)
                IN  /\ configMap' = merged
                    /\ IF decision = "interactive"
                       THEN /\ pc' = "prompt"
                            /\ entered' = TRUE
                            /\ called' = 0
                            /\ saved' = 0
                            /\ keys' = SortStrings(DOMAIN merged)
                            /\ result' = "none"
                            /\ UNCHANGED << jsonOutput, envOutput,
                                            outputModTime, log >>
                       ELSE IF decision = "save"
                       THEN \E jsonOrder \in Perms(DOMAIN merged) :
                            \E envOrder \in Perms(DOMAIN merged) :
                            \E short \in ShortWrites(denied) :
                            LET saving == saveConfig(merged, jsonOrder,
                                                     envOrder, Files, denied,
                                                     now, short)
                            IN  /\ entered' = FALSE
                                /\ called' = 1
                                /\ saved' = IF saving.err THEN 0 ELSE 1
                                /\ keys' = << >>
                                /\ Return(sil, FALSE,
                                          IF saving.err THEN "error" ELSE "ok",
                                          << >>, IF saving.err THEN 0 ELSE 1,
                                          [json |-> saving.json,
                                           env |-> saving.env,
                                           time |-> saving.time])
                       ELSE /\ entered' = FALSE
                            /\ called' = 0
                            /\ saved' = 0
                            /\ keys' = << >>
                            /\ Return(sil, FALSE, "ok", << >>, 0, Files)

\* reader.ReadString fails: the input stream has ended
ReadFails ==
    /\ pc \in {"prompt", "value"}
    /\ stdin = << >>
    /\ Return(silent, entered, "error", hist, saved, Files)
    /\ UNCHANGED << fileVars, stdin, silent, configMap, keys, key,
                    entered, hist, called, saved, start >>

\* a dispatch that takes 'c' for the save command
Dispatch_ContinueSaves(input, n) ==
    IF ToLower(input) \in { <<"s">>, <<"c">> } THEN "save"
    ELSE IF Atoi(input).err \/ Atoi(input).value < 1 \/ Atoi(input).value > n
    THEN "invalid"
    ELSE "select"

\* a dispatch that takes a line that is no command for 'c'
Dispatch_InvalidContinues(input, n) ==
    IF ToLower(input) = <<"s">> THEN "save"
    ELSE IF ToLower(input) = <<"c">> THEN "continue"
    ELSE IF Atoi(input).err \/ Atoi(input).value < 1 \/ Atoi(input).value > n
    THEN "continue"
    ELSE "select"

\* a dispatch that takes a line that is no command for 's'
Dispatch_InvalidSaves(input, n) ==
    IF ToLower(input) = <<"s">> THEN "save"
    ELSE IF ToLower(input) = <<"c">> THEN "continue"
    ELSE IF Atoi(input).err \/ Atoi(input).value < 1 \/ Atoi(input).value > n
    THEN "save"
    ELSE "select"

\* what the loop of interactiveConfig does with a trimmed line, n items
\* being listed
Dispatch(input, n) ==
    IF ToLower(input) = <<"s">> THEN "save"
    ELSE IF ToLower(input) = <<"c">> THEN "continue"
    ELSE IF Atoi(input).err \/ Atoi(input).value < 1 \/ Atoi(input).value > n
    THEN "invalid"
    ELSE "select"

\* one turn of the loop of interactiveConfig: a line is read and dispatched
ReadCommand ==
    /\ pc = "prompt"
    /\ stdin # << >>
    /\ stdin' = Tail(stdin)
    /\ hist' = Append(hist, Head(stdin))
    /\ UNCHANGED << fileVars, silent, configMap, keys, entered, start >>
    /\ LET input == TrimSpace(Head(stdin))
           command == Dispatch(input, Len(keys))
       IN  IF command = "save"
           THEN \E jsonOrder \in Perms(DOMAIN configMap) :
                \E envOrder \in Perms(DOMAIN configMap) :
                \E short \in ShortWrites(denied) :
                LET saving == saveConfig(configMap, jsonOrder, envOrder,
                                         Files, denied, now, short)
                    end == [json |-> saving.json, env |-> saving.env,
                            time |-> saving.time]
                IN  /\ key' = key
                    /\ called' = called + 1
                    /\ IF saving.err
                       THEN /\ saved' = saved
                            /\ Return(silent, entered, "error", hist', saved,
                                      end)
                       ELSE /\ saved' = saved + 1
                            /\ jsonOutput' = saving.json
                            /\ envOutput' = saving.env
                            /\ outputModTime' = saving.time
                            /\ UNCHANGED << pc, result, log >>
           ELSE IF command = "continue"
           THEN /\ Return(silent, entered, "ok", hist', saved, Files)
                /\ UNCHANGED << key, called, saved >>
           ELSE IF command = "invalid"
           THEN UNCHANGED << pc, key, result, called, saved, jsonOutput,
                             envOutput, outputModTime, log >>
           ELSE /\ pc' = "value"
                /\ key' = keys[Atoi(input).value]
                /\ UNCHANGED << result, called, saved, jsonOutput, envOutput,
                                outputModTime, log >>

\* an update that takes the empty replacement too
setDefault_AcceptsEmpty(m, k, newValue) ==
    [m EXCEPT ![k].Default = newValue]

\* an update that takes a replacement spelling a command for the command
setDefault_SkipsCommands(m, k, newValue) ==
    IF newValue # << >> /\ ToLower(newValue) \notin { <<"s">>, <<"c">> }
    THEN [m EXCEPT ![k].Default = newValue]
    ELSE m

\* the end of a turn: the trimmed replacement becomes the default of the
\* selected item unless it is empty
setDefault(m, k, newValue) ==
    IF newValue # << >>
    THEN [m EXCEPT ![k].Default = newValue]
    ELSE m

\* the second read of a turn: the replacement value of the selected item
ReadValue ==
    /\ pc = "value"
    /\ stdin # << >>
    /\ stdin' = Tail(stdin)
    /\ hist' = Append(hist, Head(stdin))
    /\ pc' = "prompt"
    /\ configMap' = setDefault(configMap, key, TrimSpace(Head(stdin)))
    /\ UNCHANGED << fileVars, silent, keys, key, result, entered, called,
                    saved, start, log, jsonOutput, envOutput, outputModTime >>

\* ---------------------------------------------------------- initial states
\* the sequences over S of length at most n
SeqUpTo(S, n) == UNION { [1..m -> S] : m \in 0..n }

\* the items a schema file may declare for `k`
Items(k, defaults, envNames) ==
    { ItemConfig(<<"d">> \o k, << >>, d, e, FALSE) :
          d \in defaults[k], e \in envNames[k] }

\* schemas over subsets of Keys, with defaults and environment names drawn
\* from the given sets
Schemas(defaults, envNames) ==
    UNION { { m \in [K -> UNION { Items(k, defaults, envNames) : k \in K }] :
                  \A k \in K : m[k] \in Items(k, defaults, envNames) } :
            K \in SUBSET Keys }

SchemaFiles(defaults, envNames) ==
    { [state |-> "ok", items |-> m] : m \in Schemas(defaults, envNames) }

BadSchemaFiles ==
    { [state |-> "missing", items |-> EmptyMap],
      [state |-> "malformed", items |-> EmptyMap] }

\* stored-values files that hold each of their names once, in any order
PlainStoreFiles(values) ==
    UNION { { [state |-> "array",
               pairs |-> [i \in 1..Len(order) |->
                             [Name |-> order[i], Value |-> val[order[i]]]]] :
              order \in Perms(K), val \in [K -> values] } : K \in SUBSET Keys }

NullStore == [state |-> "null", pairs |-> << >>]

AbsentStore == [state |-> "absent", pairs |-> << >>]

MalformedStore == [state |-> "malformed", pairs |-> << >>]

AbsentEnv == [exists |-> FALSE, content |-> << >>]

StaleEnv == [exists |-> TRUE, content |-> EnvLine(<<"X">>, <<"o">>)]

Times == 1..MaxTime

\* what is common to the initial states: no invocation yet, and a store that
\* was not written after the time at which the invocations run
InitProcess ==
    /\ outputModTime \in (IF Exists(jsonOutput) THEN Times ELSE {0})
    /\ now \in { t \in Times : t >= outputModTime }
    /\ inputModTime \in Times
    /\ pc = "idle"
    /\ silent = FALSE
    /\ configMap = EmptyMap
    /\ keys = << >>
    /\ key = << >>
    /\ result = "none"
    /\ entered = FALSE
    /\ hist = << >>
    /\ called = 0
    /\ saved = 0
    /\ start = Files
    /\ log = << >>
    /\ args = << >>
    /\ out = << >>
    /\ stdout = << >>

\* the input streams of Spec: the end of input, two sessions that continue,
\* a session that saves and one that continues, a session that edits and saves
Scripts ==
    { << >>,
      << <<"c">>, <<"c">> >>,
      << <<"s">>, <<"c">>, <<"c">> >>,
      << <<"1">>, <<"w">>, <<"s">>, <<"c">> >> }

\* "a" is exported as X and "B" is not exported
EnvNameOf == [k \in Keys |-> IF k = <<"a">> THEN { <<"X">> } ELSE { << >> }]

\* a default is blank or not
AnyDefault == [k \in Keys |-> { << >>, <<"v">> }]

\* the reconciler: every schema over Keys against every store over Keys,
\* with the schema older than, as old as and newer than the store
Init ==
    /\ inputFile \in SchemaFiles(AnyDefault, EnvNameOf) \cup BadSchemaFiles
    /\ jsonOutput \in PlainStoreFiles({ << >>, <<"w">> })
                      \cup { NullStore, AbsentStore, MalformedStore }
    /\ envOutput \in { AbsentEnv, StaleEnv }
    /\ denied = {}
    /\ stdin \in Scripts
    /\ limit = MaxRuns
    /\ InitProcess

\* the lines a user types: indexes in and out of range, the commands (with
\* blanks and in upper case), an empty line and a value between blanks
Lines ==
    { <<"1">>, <<"2">>, <<"0">>, <<" ", "S">>, <<"c">>, << >>,
      <<" ", "w", " ">> }

\* in SpecEditor "a" has a default and "B" has none
EditorDefault == [k \in Keys |-> IF k = <<"a">> THEN { <<"v">> } ELSE { << >> }]

OneStore ==
    [state |-> "array", pairs |-> << [Name |-> <<"a">>, Value |-> <<"w">>] >>]

\* the editor: one invocation on every input stream of at most MaxLines
\* lines, against the schemas over Keys, with and without a store
InitEditor ==
    /\ inputFile \in SchemaFiles(EditorDefault, EnvNameOf)
    /\ jsonOutput \in { AbsentStore, OneStore }
    /\ envOutput = StaleEnv
    /\ denied = {}
    /\ stdin \in SeqUpTo(Lines, MaxLines)
    /\ limit = 1
    /\ InitProcess
    /\ inputModTime = 1
    /\ outputModTime <= 1
    /\ now = 1

Next ==
    \/ \E sil \in BOOLEAN : CollectConfig(sil)
    \/ ReadCommand
    \/ ReadValue
    \/ ReadFails

Spec == Init /\ [][Next]_vars

SpecEditor == InitEditor /\ [][Next]_vars

\* ------------------------------------------- the functions on their own
\* the keys of the schemas and stored mappings the functions are applied to
FnKeys == Keys \cup { <<"C">> }

FnDefaults == { << >>, <<"v">> }

FnValues == { << >>, <<"w">> }

FnItems(k) ==
    { ItemConfig(<<"d">> \o k, << >>, d, k, FALSE) : d \in FnDefaults }

\* the schemas over subsets of FnKeys
FnSchemas ==
    UNION { { m \in [K -> UNION { FnItems(k) : k \in K }] :
                  \A k \in K : m[k] \in FnItems(k) } : K \in SUBSET FnKeys }

\* the stored mappings over subsets of FnKeys
FnStored == UNION { [K -> FnValues] : K \in SUBSET FnKeys }

NoCall == [fn |-> "none", value |-> << >>]

\* no invocation of the program: only args and out matter
InitFn ==
    /\ args \in [configMap : FnSchemas, existingValues : FnStored]
    /\ out = NoCall
    /\ inputFile = [state |-> "missing", items |-> EmptyMap]
    /\ inputModTime = 1
    /\ jsonOutput = AbsentStore
    /\ outputModTime = 0
    /\ envOutput = AbsentEnv
    /\ denied = {}
    /\ now = 1
    /\ limit = 0
    /\ stdin = << >>
    /\ pc = "idle"
    /\ silent = FALSE
    /\ configMap = EmptyMap
    /\ keys = << >>
    /\ key = << >>
    /\ result = "none"
    /\ entered = FALSE
    /\ hist = << >>
    /\ called = 0
    /\ saved = 0
    /\ start = Files
    /\ log = << >>
    /\ stdout = << >>

processVars == << inputFile, inputModTime, jsonOutput, outputModTime,
                  envOutput, denied, now, limit, stdin, pc, silent,
                  configMap, keys, key, result, entered, hist, called, saved,
                  start, log, stdout >>

CallCompareConfigs ==
    /\ out' = [fn |-> "compareConfigs",
               value |-> compareConfigs(args.configMap, args.existingValues)]
    /\ UNCHANGED << args, processVars >>

CallCheckForMissingValues ==
    /\ \E order \in Perms(DOMAIN args.configMap) :
           out' = [fn |-> "checkForMissingValues",
                   value |-> checkForMissingValues(args.configMap, order)]
    /\ UNCHANGED << args, processVars >>

CallUpdateConfigMapWithExistingValues ==
    /\ out' = [fn |-> "updateConfigMapWithExistingValues",
               value |-> updateConfigMapWithExistingValues(
                             args.configMap, args.existingValues)]
    /\ UNCHANGED << args, processVars >>

NextFn ==
    \/ CallCompareConfigs
    \/ CallCheckForMissingValues
    \/ CallUpdateConfigMapWithExistingValues

SpecFn == InitFn /\ [][NextFn]_vars

\* ------------------------------------------------- saveConfig on its own
\* the names of the pairs of a store that saveConfig did not write
StoredNames == Keys \cup { <<"C">> }

StoredPairs(values) == [Name : StoredNames, Value : values]

\* stored-values files of at most MaxPairs pairs, names repeated or not
StoreFiles(values) ==
    { [state |-> "array", pairs |-> p] :
          p \in SeqUpTo(StoredPairs(values), MaxPairs) }

\* a default of two lines: JSON strings hold any character
TwoLines == <<"v", "\n", "w">>

SaveDefault ==
    [k \in Keys |-> IF k = <<"a">> THEN { << >>, <<"v">> }
                    ELSE { << >>, <<"v">>, TwoLines }]

\* a exports X or nothing, B exports Y or nothing
SaveEnvName ==
    [k \in Keys |-> IF k = <<"a">> THEN { << >>, <<"X">> }
                    ELSE { << >>, <<"Y">> }]

\* the faults of a behaviour: none or one
FaultSets == { {} } \cup { {f} : f \in Faults }

\* saveConfig is called on the schema in memory, over any earlier output
\* files; inputFile is the schema file the schema was loaded from, with the
\* defaults it declares
InitSave ==
    /\ configMap \in Schemas(SaveDefault, SaveEnvName)
    /\ inputFile \in { f \in SchemaFiles(SaveDefault, SaveEnvName) :
                          /\ DOMAIN f.items = DOMAIN configMap
                          /\ \A k \in DOMAIN configMap :
                                 [f.items[k] EXCEPT !.Default = << >>] =
                                 [configMap[k] EXCEPT !.Default = << >>] }
    /\ jsonOutput \in StoreFiles({ <<"o">> })
                          \cup { NullStore, AbsentStore, MalformedStore }
    /\ envOutput \in { AbsentEnv, StaleEnv }
    /\ denied \in FaultSets
    /\ outputModTime = (IF Exists(jsonOutput) THEN 1 ELSE 0)
    /\ now = MaxTime
    /\ inputModTime = 1
    /\ limit = 0
    /\ stdin = << >>
    /\ pc = "idle"
    /\ silent = FALSE
    /\ keys = << >>
    /\ key = << >>
    /\ result = "none"
    /\ entered = FALSE
    /\ hist = << >>
    /\ called = 0
    /\ saved = 0
    /\ start = Files
    /\ log = << >>
    /\ args = << >>
    /\ out = NoCall
    /\ stdout = << >>

\* saveConfig(inputJSONFile, configMap)
CallSaveConfig ==
    /\ called = 0
    /\ \E jsonOrder \in Perms(DOMAIN configMap) :
       \E envOrder \in Perms(DOMAIN configMap) :
       \E short \in ShortWrites(denied) :
       LET saving == saveConfig(configMap, jsonOrder, envOrder, Files, denied,
                                now, short)
       IN  /\ jsonOutput' = saving.json
           /\ envOutput' = saving.env
           /\ outputModTime' = saving.time
           /\ result' = IF saving.err THEN "error" ELSE "ok"
           /\ saved' = IF saving.err THEN 0 ELSE 1
    /\ called' = 1
    /\ UNCHANGED << fileVars, stdin, pc, silent, configMap, keys, key,
                    entered, hist, start, log >>

\* the schema file is loaded afresh and the stored values are merged into
\* it, as CollectConfig does before it decides
CallLoadAndMerge ==
    /\ called = 1
    /\ LET loaded == loadConfigFile(inputFile)
           existing == IF Exists(jsonOutput)
                       THEN loadExistingValues(jsonOutput)
                       ELSE [err |-> FALSE, existingValues |-> EmptyMap]
       IN  out' = IF loaded.err \/ existing.err
                  THEN [fn |-> "loadError", value |-> EmptyMap]
                  ELSE [fn |-> "merge",
                        value |-> updateConfigMapWithExistingValues(
                                      loaded.configMap,
                                      existing.existingValues)]
    /\ UNCHANGED << args, processVars >>

NextSave ==
    \/ CallSaveConfig
    \/ CallLoadAndMerge

SpecSave == InitSave /\ [][NextSave]_vars

\* ------------------------------------------- stores CollectConfig reads
\* the two streams of SpecStore: the end of input, and an edit that is saved
StoreScripts == { << >>, << <<"1">>, <<"w">>, <<"s">>, <<"c">> >> }

\* one invocation against stores that saveConfig did not write: names
\* repeated, names the schema lacks, or no store at all
InitStore ==
    /\ inputFile \in SchemaFiles(EditorDefault, EnvNameOf)
    /\ jsonOutput \in StoreFiles({ <<"o">>, <<"w">> }) \cup { AbsentStore }
    /\ envOutput = AbsentEnv
    /\ denied = {}
    /\ stdin \in StoreScripts
    /\ limit = 1
    /\ InitProcess
    /\ inputModTime = 1
    /\ now = MaxTime

SpecStore == InitStore /\ [][Next]_vars

\* ------------------------------------------------------------ DeleteConfig
\* os.Remove of the store or of the environment file fails
RemoveFaults == { "jsonRemove", "envRemove" }

\* filesToDelete: the output files that os.Stat finds, the store first
FilesToDelete(files) ==
    (IF Exists(files.json) THEN << "json" >> ELSE << >>)
    \o (IF files.env.exists THEN << "env" >> ELSE << >>)

\* a deletion that stops after the first file
RECURSIVE deleteFiles_FirstOnly(_, _, _, _)
deleteFiles_FirstOnly(files, sil, cur, faults) ==
    IF files = << >>
    THEN [err |-> FALSE, files |-> cur, printed |-> << >>]
    ELSE IF Head(files) = "json"
    THEN [err |-> FALSE,
          files |-> [cur EXCEPT !.json = AbsentStore, !.time = 0],
          printed |-> << >>]
    ELSE [err |-> FALSE, files |-> [cur EXCEPT !.env = AbsentEnv],
          printed |-> << >>]

\* a deletion that removes nothing unless every file can be removed
RECURSIVE deleteFiles_AllOrNothing(_, _, _, _)
deleteFiles_AllOrNothing(files, sil, cur, faults) ==
    IF files = << >>
    THEN [err |-> FALSE, files |-> cur, printed |-> << >>]
    ELSE IF \E i \in 1..Len(files) :
                (IF files[i] = "json" THEN "jsonRemove" ELSE "envRemove")
                \in faults
    THEN [err |-> TRUE, files |-> cur, printed |-> << >>]
    ELSE LET removed == IF Head(files) = "json"
                        THEN [cur EXCEPT !.json = AbsentStore, !.time = 0]
                        ELSE [cur EXCEPT !.env = AbsentEnv]
             rest == deleteFiles_AllOrNothing(Tail(files), sil, removed,
                                              faults)
         IN  [err |-> rest.err,
              files |-> rest.files,
              printed |-> (IF sil THEN << >> ELSE << "Deleted file: " >>)
                          \o rest.printed]

\* deleteFiles: os.Remove of each file in turn, returning at the first that
\* fails; cur = [json, env, time]; printed = what goes to standard output
RECURSIVE deleteFiles(_, _, _, _)
deleteFiles(files, sil, cur, faults) ==
    IF files = << >>
    THEN [err |-> FALSE, files |-> cur, printed |-> << >>]
    ELSE IF (IF Head(files) = "json" THEN "jsonRemove" ELSE "envRemove")
            \in faults
    THEN [err |-> TRUE, files |-> cur, printed |-> << >>]
    ELSE LET removed == IF Head(files) = "json"
                        THEN [cur EXCEPT !.json = AbsentStore, !.time = 0]
                        ELSE [cur EXCEPT !.env = AbsentEnv]
             rest == deleteFiles(Tail(files), sil, removed, faults)
         IN  [err |-> rest.err,
              files |-> rest.files,
              printed |-> (IF sil THEN << >> ELSE << "Deleted file: " >>)
                          \o rest.printed]

\* a confirmation that takes any line beginning with y
Confirmed_AnyY(input) == input # << >> /\ ToLower(input)[1] = "y"

\* the test of promptAndDeleteFiles on the trimmed line
Confirmed(input) == ToLower(input) = <<"y", "e", "s">>

\* DeleteConfig(inputJSONFile, sil, inputReader) up to its return or to the
\* read of promptAndDeleteFiles
DeleteConfig(sil) ==
    /\ pc = "idle"
    /\ Len(log) < limit
    /\ silent' = sil
    /\ start' = Files
    /\ hist' = << >>
    /\ UNCHANGED << inputFile, inputModTime, denied, now, limit, args, out,
                    stdin, configMap, keys, key, entered, called, saved >>
    /\ LET filesToDelete == FilesToDelete(Files)
       IN  IF Len(filesToDelete) = 0
           THEN /\ stdout' = Append(stdout, "No output files to delete.")
                /\ Return(sil, FALSE, "ok", << >>, 0, Files)
           ELSE IF sil
           THEN LET deleted == deleteFiles(filesToDelete, sil, Files, denied)
                IN  /\ stdout' = stdout \o deleted.printed
                    /\ Return(sil, FALSE,
                              IF deleted.err THEN "error" ELSE "ok",
                              << >>, 0, deleted.files)
           ELSE /\ stdout' = stdout
                       \o << "Do you want to delete the following files?" >>
                       \o [i \in 1..Len(filesToDelete) |-> " - "]
                       \o << "Type 'yes' to confirm: " >>
                /\ pc' = "confirm"
                /\ result' = "none"
                /\ UNCHANGED << jsonOutput, envOutput, outputModTime, log >>

\* promptAndDeleteFiles reads the confirmation
ReadConfirmation ==
    /\ pc = "confirm"
    /\ stdin # << >>
    /\ stdin' = Tail(stdin)
    /\ hist' = Append(hist, Head(stdin))
    /\ UNCHANGED << inputFile, inputModTime, denied, now, limit, args, out,
                    silent, configMap, keys, key, entered, called, saved,
                    start >>
    /\ IF Confirmed(TrimSpace(Head(stdin)))
       THEN LET deleted == deleteFiles(FilesToDelete(Files), silent, Files,
                                       denied)
            IN  /\ stdout' = stdout \o deleted.printed
                /\ Return(silent, FALSE,
                          IF deleted.err THEN "error" ELSE "ok",
                          hist', 0, deleted.files)
       ELSE /\ stdout' = Append(stdout, "Deletion canceled.")
            /\ Return(silent, FALSE, "ok", hist', 0, Files)

\* reader.ReadString fails: the input stream has ended
ConfirmationFails ==
    /\ pc = "confirm"
    /\ stdin = << >>
    /\ Return(silent, FALSE, "error", hist, 0, Files)
    /\ UNCHANGED << fileVars, stdin, silent, configMap, keys, key,
                    entered, hist, called, saved, start >>

\* the lines typed at the confirmation
DeleteLines ==
    { <<"y", "e", "s">>, <<"n", "o">>, <<" ", "Y", "E", "S", " ">>, <<"y">>,
      << >> }

\* deletions of output files present or not, that can be removed or not,
\* with at most one line of input for each invocation
InitDelete ==
    /\ inputFile = [state |-> "ok", items |-> EmptyMap]
    /\ jsonOutput \in { AbsentStore, OneStore, MalformedStore }
    /\ envOutput \in { AbsentEnv, StaleEnv }
    /\ denied \in { {} } \cup { {f} : f \in RemoveFaults }
    /\ stdin \in SeqUpTo(DeleteLines, MaxRuns)
    /\ limit = MaxRuns
    /\ InitProcess
    /\ inputModTime = 1
    /\ now = MaxTime

NextDelete ==
    \/ \E sil \in BOOLEAN : DeleteConfig(sil)
    \/ ReadConfirmation
    \/ ConfirmationFails

SpecDelete == InitDelete /\ [][NextDelete]_vars

\* ------------------------------------------------------ GetOutputFilePaths
\* the paths of the model are clean: no "." or ".." element, no doubled or
\* trailing separator
\* strings.LastIndex for one character, counted from 1; 0 when absent
LastIndex(s, ch) ==
    LET found == { i \in 1..Len(s) : s[i] = ch }
    IN  IF found = {} THEN 0
        ELSE CHOOSE i \in found : \A j \in found : j <= i

\* filepath.Base: the last element of the path, "." for the empty path
Base(path) ==
    IF path = << >> THEN <<".">>
    ELSE IF path = <<"/">> THEN path
    ELSE SubSeq(path, LastIndex(path, "/") + 1, Len(path))

\* filepath.Ext: the suffix that begins at the last dot of the last element
Ext(path) ==
    LET dot == LastIndex(path, ".")
    IN  IF dot = 0 \/ dot < LastIndex(path, "/") THEN << >>
        ELSE SubSeq(path, dot, Len(path))

\* strings.TrimSuffix
TrimSuffix(s, suffix) ==
    IF /\ Len(suffix) <= Len(s)
       /\ SubSeq(s, Len(s) - Len(suffix) + 1, Len(s)) = suffix
    THEN SubSeq(s, 1, Len(s) - Len(suffix))
    ELSE s

\* filepath.Dir: all but the last element of the path
Dir(path) ==
    LET slash == LastIndex(path, "/")
    IN  IF slash = 0 THEN <<".">>
        ELSE IF slash = 1 THEN <<"/">>
        ELSE SubSeq(path, 1, slash - 1)

\* filepath.Join of two elements: empty elements are ignored
PathJoin(a, b) ==
    IF a = << >> THEN b
    ELSE IF b = << >> THEN a
    ELSE IF a[Len(a)] = "/" THEN a \o b
    ELSE a \o <<"/">> \o b

\* filepath.Abs, wd being the working directory of the process
Abs(path, wd) ==
    IF path # << >> /\ path[1] = "/" THEN path ELSE PathJoin(wd, path)

\* dir is the directory root or lies below it
Within(dir, root) ==
    /\ Len(root) <= Len(dir)
    /\ SubSeq(dir, 1, Len(root)) = root
    /\ Len(dir) = Len(root) \/ dir[Len(root) + 1] = "/"

\* getProjectName: the base name of what `git rev-parse --show-toplevel`
\* prints in the directory of startPath (the innermost work tree of
\* env.roots around it), and of $PWD when git fails
getProjectName(startPath, env) ==
    LET dir == Dir(startPath)
        tops == { r \in env.roots : Within(dir, r) }
        gitRootPath ==
            IF tops = {} THEN env.pwd
            ELSE CHOOSE r \in tops : \A q \in tops : Len(q) <= Len(r)
    IN  Base(gitRootPath)

DotRepoConfig == <<".", "r", "e", "p", "o", "-", "c", "o", "n", "f", "i", "g">>

ValuesJSON == <<"-", "v", "a", "l", "u", "e", "s", ".", "j", "s", "o", "n">>

ValuesEnv == <<"-", "v", "a", "l", "u", "e", "s", ".", "e", "n", "v">>

\* output files named after the whole input path
GetOutputFilePaths_WholePath(inputJSONFile, env) ==
    LET outputDir == PathJoin(PathJoin(env.home, DotRepoConfig),
                         getProjectName(Abs(inputJSONFile, env.pwd), env))
        name == [i \in 1..Len(inputJSONFile) |->
                     IF inputJSONFile[i] = "/" THEN "_" ELSE inputJSONFile[i]]
    IN  [err |-> FALSE,
         json |-> PathJoin(outputDir, <<".">> \o name \o ValuesJSON),
         env |-> PathJoin(outputDir, <<".">> \o name \o ValuesEnv)]

\* GetOutputFilePaths(inputJSONFile) in the environment env = [home, pwd,
\* roots]: os.UserHomeDir fails when $HOME is empty
GetOutputFilePaths(inputJSONFile, env) ==
    IF env.home = << >>
    THEN [err |-> TRUE, json |-> << >>, env |-> << >>]
    ELSE LET absInputJSONFile == Abs(inputJSONFile, env.pwd)
             projectName == getProjectName(absInputJSONFile, env)
             outputDir == PathJoin(PathJoin(env.home, DotRepoConfig),
                                   projectName)
             baseFilename == Base(inputJSONFile)
             ext == Ext(baseFilename)
             nameWithoutExt == TrimSuffix(baseFilename, ext)
         IN  [err |-> FALSE,
              json |-> PathJoin(outputDir,
                           <<".">> \o nameWithoutExt \o ValuesJSON),
              env |-> PathJoin(outputDir,
                          <<".">> \o nameWithoutExt \o ValuesEnv)]

\* ------------------------------------------------------ the status envelope
\* createStatusOutput: the StatusOutput that json.Marshal encodes
createStatusOutput(success, message, jsonFile, envFile) ==
    [status |-> IF success THEN "ok" ELSE "error",
     message |-> message,
     env_file |-> envFile,
     json_file |-> jsonFile]

CreateSuccessOutput(jsonFile, envFile) ==
    createStatusOutput(TRUE, "", jsonFile, envFile)

\* CreateErrorOutput(err): the message is the text of the error, which in
\* the model is its kind
CreateErrorOutput(err) == createStatusOutput(FALSE, err, << >>, << >>)

\* no invocation yet, in the specifications that set args and out themselves
NotInvoked ==
    /\ pc = "idle"
    /\ silent = FALSE
    /\ configMap = EmptyMap
    /\ keys = << >>
    /\ key = << >>
    /\ result = "none"
    /\ entered = FALSE
    /\ hist = << >>
    /\ called = 0
    /\ saved = 0
    /\ start = Files
    /\ log = << >>
    /\ stdout = << >>

\* --------------------------------------------- GetOutputFilePaths on its own
\* the calls of GetOutputFilePaths in a behaviour of SpecPaths
MaxCalls == 2

SlashR == <<"/", "r">>

SlashRD == <<"/", "r", "/", "d">>

AJson == <<"a", ".", "j", "s", "o", "n">>

\* input paths: relative and absolute, in a subdirectory, with another
\* extension, without extension, with another base name, and none
InputPaths ==
    { AJson, <<"d", "/">> \o AJson, <<"/", "r", "/">> \o AJson,
      <<"a", ".", "e", "n", "v">>, <<"a">>, <<"b", ".", "j", "s", "o", "n">>,
      << >> }

\* home directories, the empty one for an unset $HOME
Homes == { <<"/", "h">>, <<"/", "g">>, << >> }

\* the work trees of git: /r, /r/d, both or none
RootSets == SUBSET { SlashR, SlashRD }

InitPaths ==
    /\ args \in [home : Homes, roots : RootSets]
    /\ out = << >>
    /\ inputFile = [state |-> "missing", items |-> EmptyMap]
    /\ inputModTime = 1
    /\ jsonOutput = AbsentStore
    /\ outputModTime = 0
    /\ envOutput = AbsentEnv
    /\ denied = {}
    /\ now = 1
    /\ limit = 0
    /\ stdin = << >>
    /\ NotInvoked

\* GetOutputFilePaths(inputJSONFile) by a process started in /r or in /r/d
CallGetOutputFilePaths ==
    /\ Len(out) < MaxCalls
    /\ \E inputJSONFile \in InputPaths, pwd \in { SlashR, SlashRD } :
       LET env == [home |-> args.home, pwd |-> pwd, roots |-> args.roots]
       IN  out' = Append(out,
                      [inputJSONFile |-> inputJSONFile,
                       pwd |-> pwd,
                       projectName |->
                           getProjectName(Abs(inputJSONFile, pwd), env),
                       paths |-> GetOutputFilePaths(inputJSONFile, env)])
    /\ UNCHANGED << args, processVars >>

NextPaths == CallGetOutputFilePaths

SpecPaths == InitPaths /\ [][NextPaths]_vars

\* ------------------------------------------------------- the command layer
\* the command lines: one command with its own flags set, the flags of the
\* other command at their defaults
CommandLines ==
    { [cmd |-> "collect", collectJSONFile |-> f, collectSilent |-> s,
       deleteJSONFile |-> << >>, deleteSilent |-> FALSE,
       home |-> <<"/", "h">>, pwd |-> SlashR, roots |-> { SlashR }] :
          f \in { AJson }, s \in BOOLEAN }
    \cup
    { [cmd |-> "delete", collectJSONFile |-> << >>, collectSilent |-> FALSE,
       deleteJSONFile |-> f, deleteSilent |-> s,
       home |-> <<"/", "h">>, pwd |-> SlashR, roots |-> { SlashR }] :
          f \in { AJson }, s \in BOOLEAN }

\* what is typed to a command: nothing, a session that continues, one that
\* edits and saves, a confirmation and a refusal
CommandScripts ==
    { << >>, << <<"c">> >>, << <<"1">>, <<"w">>, <<"s">>, <<"c">> >>,
      << <<"y", "e", "s">> >>, << <<"n", "o">> >> }

\* one run of one command over the output files of its schema file
InitCmd ==
    /\ args \in CommandLines
    /\ out = NoCall
    /\ inputFile \in SchemaFiles(EditorDefault, EnvNameOf) \cup BadSchemaFiles
    /\ jsonOutput \in { AbsentStore, OneStore, MalformedStore }
    /\ envOutput \in { AbsentEnv, StaleEnv }
    /\ denied \in { {}, { "jsonRemove" } }
    /\ outputModTime = (IF Exists(jsonOutput) THEN 1 ELSE 0)
    /\ inputModTime = 1
    /\ now = MaxTime
    /\ limit = 1
    /\ stdin \in CommandScripts
    /\ NotInvoked

\* collectCmd.Run calls CollectConfig with its flags
collectCmd ==
    /\ args.cmd = "collect"
    /\ out = NoCall
    /\ CollectConfig(args.collectSilent)

\* deleteCmd.Run calls DeleteConfig with its flags
deleteCmd ==
    /\ args.cmd = "delete"
    /\ out = NoCall
    /\ DeleteConfig(args.deleteSilent)

\* the core has returned to the command
CoreReturned == pc = "idle" /\ Len(log) = 1 /\ out = NoCall

\* collectCmd.Run after CollectConfig: the envelope is printed and the
\* process exits
collectCmdExit ==
    /\ args.cmd = "collect"
    /\ CoreReturned
    /\ LET paths == GetOutputFilePaths(args.collectJSONFile, args)
       IN  out' = [fn |-> "collect",
                   value |-> [printed |->
                                  IF result = "ok"
                                  THEN CreateSuccessOutput(paths.json,
                                                           paths.env)
                                  ELSE CreateErrorOutput(result),
                              exit |-> 1]]
    /\ UNCHANGED << args, processVars >>

\* deleteCmd.Run after DeleteConfig: the paths are resolved from the flag of
\* the collect command
deleteCmdExit ==
    /\ args.cmd = "delete"
    /\ CoreReturned
    /\ LET paths == GetOutputFilePaths(args.collectJSONFile, args)
       IN  out' = [fn |-> "delete",
                   value |-> [printed |->
                                  IF result = "ok"
                                  THEN CreateSuccessOutput(paths.json,
                                                           paths.env)
                                  ELSE CreateErrorOutput(result),
                              exit |-> 1]]
    /\ UNCHANGED << args, processVars >>

NextCmd ==
    \/ collectCmd
    \/ ReadCommand
    \/ ReadValue
    \/ ReadFails
    \/ deleteCmd
    \/ ReadConfirmation
    \/ ConfirmationFails
    \/ collectCmdExit
    \/ deleteCmdExit

SpecCmd == InitCmd /\ [][NextCmd]_vars

\* ------------------------------------------- sessions over failing files
\* what is typed to a session: nothing, saves, an edit that is saved, a
\* replacement of blanks, an empty replacement, an edit after the save, a
\* line that is no command, an edit before and after the save, a replacement
\* that spells a command
SessionScripts ==
    { << >>,
      << <<"s">> >>,
      << <<"s">>, <<"c">> >>,
      << <<"1">>, <<"w">>, <<"s">>, <<"c">> >>,
      << <<"1">>, <<" ", " ">>, <<"s">>, <<"c">> >>,
      << <<"2">>, << >>, <<"c">> >>,
      << <<"s">>, <<"2">>, <<"w">>, <<"c">> >>,
      << <<"x">>, <<"s">>, <<"s">>, <<"c">> >>,
      << <<"1">>, <<"w">>, <<"s">>, <<"1">>, <<"o">>, <<"c">> >>,
      << <<"1">>, <<"s">>, <<"c">> >>,
      << <<"1">>, <<"c">>, <<"s">>, <<"c">> >> }

\* one invocation on each script, with files that can be written or not
InitSession ==
    /\ inputFile \in SchemaFiles(EditorDefault, EnvNameOf)
    /\ jsonOutput \in { AbsentStore, OneStore }
    /\ envOutput = StaleEnv
    /\ denied \in FaultSets
    /\ stdin \in SessionScripts
    /\ limit = 1
    /\ InitProcess
    /\ inputModTime = 1
    /\ outputModTime <= 1
    /\ now = MaxTime

SpecSession == InitSession /\ [][Next]_vars

\* ------------------------------------------------- two invocations at once
\* two processes run CollectConfig (not silent) on the same schema file and
\* output files; args[p] is the memory of process p, out the order in which
\* the processes loaded and wrote the store.  Each write of a file is one
\* step; the two writes of one saveConfig are two steps
Procs == { "p", "q" }

\* what is typed to each process: a save, an edit of the first or of the
\* second item that is saved, and a save before the end of the input
RaceScripts ==
    { << <<"s">>, <<"c">> >>,
      << <<"1">>, <<"w">>, <<"s">>, <<"c">> >>,
      << <<"2">>, <<"w">>, <<"s">>, <<"c">> >>,
      << <<"s">> >> }

NotStarted(script) ==
    [pc |-> "start", stdin |-> script, configMap |-> EmptyMap,
     keys |-> << >>, key |-> << >>, result |-> "none"]

sharedVars == << inputFile, inputModTime, denied, now, limit, stdin, pc,
                 silent, configMap, keys, key, result, entered, hist, called,
                 saved, start, log, stdout >>

InitRace ==
    /\ args \in [Procs -> { NotStarted(script) : script \in RaceScripts }]
    /\ out = << >>
    /\ inputFile \in SchemaFiles(EditorDefault, EnvNameOf)
    /\ jsonOutput \in { AbsentStore, OneStore }
    /\ outputModTime = (IF Exists(jsonOutput) THEN 1 ELSE 0)
    /\ envOutput = AbsentEnv
    /\ inputModTime = 1
    /\ denied = {}
    /\ now = MaxTime
    /\ limit = 0
    /\ stdin = << >>
    /\ NotInvoked

\* CollectConfig(inputJSONFile, false) in process p, up to the first read of
\* interactiveConfig
RaceCollectConfig(p) ==
    /\ args[p].pc = "start"
    /\ LET loaded == loadConfigFile(inputFile)
           existing == IF Exists(jsonOutput)
                       THEN loadExistingValues(jsonOutput)
                       ELSE [err |-> FALSE, existingValues |-> EmptyMap]
           merged == updateConfigMapWithExistingValues(
                         loaded.configMap, existing.existingValues)
       IN  args' = [args EXCEPT ![p] =
                        IF loaded.err \/ existing.err
                        THEN [@ EXCEPT !.pc = "done", !.result = "loadError"]
                        ELSE [@ EXCEPT !.pc = "prompt",
                                       !.configMap = merged,
                                       !.keys = SortStrings(DOMAIN merged)]]
    /\ out' = Append(out, [proc |-> p, event |-> "load"])
    /\ UNCHANGED << sharedVars, jsonOutput, envOutput, outputModTime >>

\* one turn of the loop of interactiveConfig in process p; on 's' the store
\* is created and written, the environment file is still to come
RaceReadCommand(p) ==
    /\ args[p].pc = "prompt"
    /\ args[p].stdin # << >>
    /\ UNCHANGED << sharedVars, envOutput >>
    /\ LET input == TrimSpace(Head(args[p].stdin))
           command == Dispatch(input, Len(args[p].keys))
           read == [args[p] EXCEPT !.stdin = Tail(@)]
       IN  IF command = "save"
           THEN \E jsonOrder \in Perms(DOMAIN read.configMap) :
                LET store == WriteJSON(
                                 NameValuePairs(read.configMap, jsonOrder),
                                 jsonOutput, denied)
                IN  /\ jsonOutput' = store.json
                    /\ outputModTime' = now
                    /\ out' = Append(out, [proc |-> p, event |-> "store"])
                    /\ args' = [args EXCEPT ![p] =
                                    IF store.err
                                    THEN [read EXCEPT !.pc = "done",
                                                      !.result = "saveError"]
                                    ELSE [read EXCEPT !.pc = "env"]]
           ELSE /\ UNCHANGED << jsonOutput, outputModTime, out >>
                /\ args' = [args EXCEPT ![p] =
                                IF command = "continue"
                                THEN [read EXCEPT !.pc = "done",
                                                  !.result = "ok"]
                                ELSE IF command = "invalid"
                                THEN read
                                ELSE [read EXCEPT
                                          !.pc = "value",
                                          !.key = read.keys[
                                                      Atoi(input).value]]]

\* the second half of saveConfig in process p: the environment file
RaceWriteEnv(p) ==
    /\ args[p].pc = "env"
    /\ \E envOrder \in Perms(DOMAIN args[p].configMap) :
       LET envFile == WriteEnv(EnvLines(args[p].configMap, envOrder),
                               envOutput, denied, 0)
       IN  /\ envOutput' = envFile.env
           /\ args' = [args EXCEPT ![p] =
                           IF envFile.err
                           THEN [@ EXCEPT !.pc = "done",
                                          !.result = "saveError"]
                           ELSE [@ EXCEPT !.pc = "prompt"]]
    /\ UNCHANGED << sharedVars, jsonOutput, outputModTime, out >>

\* the replacement value of the selected item is read in process p
RaceReadValue(p) ==
    /\ args[p].pc = "value"
    /\ args[p].stdin # << >>
    /\ args' = [args EXCEPT ![p] =
                   [@ EXCEPT !.stdin = Tail(@),
                             !.pc = "prompt",
                             !.configMap =
                                 setDefault(@, args[p].key,
                                            TrimSpace(Head(args[p].stdin)))]]
    /\ UNCHANGED << sharedVars, jsonOutput, envOutput, outputModTime, out >>

\* reader.ReadString fails in process p
RaceReadFails(p) ==
    /\ args[p].pc \in {"prompt", "value"}
    /\ args[p].stdin = << >>
    /\ args' = [args EXCEPT ![p] = [@ EXCEPT !.pc = "done",
                                             !.result = "readError"]]
    /\ UNCHANGED << sharedVars, jsonOutput, envOutput, outputModTime, out >>

NextRace ==
    \/ \E p \in Procs : RaceCollectConfig(p)
    \/ \E p \in Procs : RaceReadCommand(p)
    \/ \E p \in Procs : RaceWriteEnv(p)
    \/ \E p \in Procs : RaceReadValue(p)
    \/ \E p \in Procs : RaceReadFails(p)

SpecRace == InitRace /\ [][NextRace]_vars

\* ------------------------------------------------------ notions of the claims
\* an invocation has begun: silent, entered, hist, called, saved and start
\* describe it
Invoked == pc # "idle" \/ log # << >>

\* the last invocation has returned
Returned == pc = "idle" /\ log # << >>

SchemaLoaded == inputFile.state = "ok"

SchemaKeys == DOMAIN inputFile.items

Loadable(file) == file.state \in {"array", "null"}

NamesOf(file) == { file.pairs[i].Name : i \in 1..Len(file.pairs) }

\* the Value of the last pair of `file` named `name`
LastValue(file, name) ==
    LET last == CHOOSE i \in 1..Len(file.pairs) :
                    /\ file.pairs[i].Name = name
                    /\ \A j \in (i + 1)..Len(file.pairs) :
                           file.pairs[j].Name # name
    IN  file.pairs[last].Value

\* the value of schema key k once the stored values of `file` are merged in
MergedValue(file, k) ==
    IF k \in NamesOf(file) THEN LastValue(file, k)
    ELSE inputFile.items[k].Default

\* the store the invocation found is absent or older than the schema file
StaleAtStart == start.json.state = "absent" \/ inputModTime > start.time

BlankAtStart == \E k \in SchemaKeys : MergedValue(start.json, k) = << >>

\* `file` holds every key of the schema m once and nothing else, with its
\* default
HoldsExactly(file, m) ==
    /\ Loadable(file)
    /\ Len(file.pairs) = Cardinality(DOMAIN m)
    /\ NamesOf(file) = DOMAIN m
    /\ \A i \in 1..Len(file.pairs) :
           file.pairs[i].Value = m[file.pairs[i].Name].Default

\* the lines of a text
RECURSIVE SplitLines(_, _)
SplitLines(text, line) ==
    IF text = << >> THEN << line >>
    ELSE IF Head(text) = "\n" THEN << line >> \o SplitLines(Tail(text), << >>)
    ELSE SplitLines(Tail(text), Append(line, Head(text)))

Exported(m) == { k \in DOMAIN m : m[k].TempEnvironmentVariableName # << >> }

\* the environment file holds one line NAME=value for every exported item of
\* m, and no other line
ExportsExactly(file, m) ==
    LET lines == SplitLines(file.content, << >>)
    IN  /\ file.exists
        /\ Len(lines) = Cardinality(Exported(m))
        /\ \A k \in Exported(m) :
               \E i \in 1..Len(lines) :
                   lines[i] = m[k].TempEnvironmentVariableName
                              \o <<"=">> \o m[k].Default

FilesUntouched ==
    /\ jsonOutput = start.json
    /\ envOutput = start.env
    /\ outputModTime = start.time

\* ------------------------------------------------------------------ claims
\* C1: a silent collect that finds a stored name the schema no longer
\* declares, with the schema file older than the store and no blank value,
\* returns success and leaves the store holding exactly the schema's keys with
\* their stored values, and the environment file holding exactly the lines of
\* the remaining exported items.
C1_SilentCollectDropsOrphan ==
    ( /\ Returned
      /\ silent
      /\ SchemaLoaded
      /\ Loadable(start.json)
      /\ NamesOf(start.json) \ SchemaKeys # {}
      /\ NamesOf(start.json) \cap SchemaKeys # {}
      /\ inputModTime < start.time
      /\ ~BlankAtStart )
    => /\ result = "ok"
       /\ HoldsExactly(jsonOutput, configMap)
       /\ \A k \in SchemaKeys \cap NamesOf(start.json) :
              configMap[k].Default = LastValue(start.json, k)
       /\ Exported(configMap) # {} => ExportsExactly(envOutput, configMap)

\* a silent invocation that found a loadable schema and no stored-values file
SilentFirstRun ==
    /\ Invoked
    /\ silent
    /\ SchemaLoaded
    /\ start.json.state = "absent"

NoBlankDefault == \A k \in SchemaKeys : inputFile.items[k].Default # << >>

\* C2 as stated: a silent collect of a schema without blank defaults that
\* finds no stored-values file creates the store with one entry per schema key.
C2_SilentFirstRunCreatesStore ==
    (SilentFirstRun /\ NoBlankDefault /\ Returned)
    => HoldsExactly(jsonOutput, inputFile.items)

\* C2 amended: such a collect of a schema that declares a key enters the
\* interactive path and creates no store by itself: the store appears only
\* with an 's' command, and after an 's' that succeeded it holds one entry per
\* schema key; the empty schema is saved without a prompt.
C2_SilentFirstRunPrompts ==
    (SilentFirstRun /\ NoBlankDefault)
    => IF SchemaKeys # {}
       THEN /\ entered
            /\ called = 0 => FilesUntouched
            /\ saved > 0 => HoldsExactly(jsonOutput, configMap)
       ELSE /\ ~entered
            /\ Returned
            /\ hist = << >>
            /\ HoldsExactly(jsonOutput, inputFile.items)

C2_Witness ==
    /\ SilentFirstRun
    /\ NoBlankDefault
    /\ Returned
    /\ Cardinality(SchemaKeys) = 2
    /\ entered
    /\ saved = 1
    /\ Len(jsonOutput.pairs) = 2

\* two invocations have returned, both silent, and the second one found the
\* schema loadable and no blank value
TwoSilentRuns ==
    /\ pc = "idle"
    /\ Len(log) = 2
    /\ log[1].silent
    /\ log[2].silent
    /\ SchemaLoaded
    /\ start.json.state # "malformed"
    /\ ~BlankAtStart

\* C3 as stated: the second of two silent runs, with no schema change
\* between them and no blank value, reads no input and leaves both output
\* files as the first run left them (stated for a schema file that is not
\* dated after the first run).
C3_SecondSilentRunIsNoOp ==
    (TwoSilentRuns /\ inputModTime <= log[1].clock)
    => (hist = << >> /\ ~entered /\ FilesUntouched)

\* C3 amended: it does so when the first run left a store that is not older
\* than the schema file.
C3_SecondSilentRunAfterUpToDateStore ==
    (TwoSilentRuns /\ ~StaleAtStart)
    => (hist = << >> /\ ~entered /\ result = "ok" /\ FilesUntouched)

\* the first run saved from its interactive session, the second one returned
C3_Witness ==
    /\ TwoSilentRuns
    /\ ~StaleAtStart
    /\ log[1].entered
    /\ log[1].saved = 1
    /\ Cardinality(SchemaKeys) = 2
    /\ result = "ok"

\* a silent invocation whose schema and store loaded
SilentLoaded ==
    /\ Invoked
    /\ silent
    /\ SchemaLoaded
    /\ start.json.state # "malformed"

NewKeyAtStart == SchemaKeys \ NamesOf(start.json) # {}

\* C4 as stated: a silent collect enters the interactive path whenever the
\* schema declares a key the store lacks or a value is blank after the merge.
C4_NewOrBlankAlwaysPrompts ==
    (SilentLoaded /\ (NewKeyAtStart \/ BlankAtStart)) => entered

\* C4 amended: it does so when the schema declares a key the store lacks and
\* the store is absent or older than the schema file, or when a value is
\* blank after the merge and the store exists and is not older than the
\* schema file.
C4_NewOrBlankPromptsInItsBranch ==
    ( /\ SilentLoaded
      /\ \/ StaleAtStart /\ NewKeyAtStart
         \/ ~StaleAtStart /\ BlankAtStart )
    => entered

C4_Witness ==
    /\ SilentLoaded
    /\ ~StaleAtStart
    /\ BlankAtStart
    /\ ~NewKeyAtStart
    /\ entered
    /\ pc = "prompt"

\* C5: a silent collect enters the interactive path only if the store is
\* absent or strictly older than the schema file and the key sets differ, or
\* some value is blank after the merge; any other silent run reads no input.
C5_SilentPromptsOnlyForCause ==
    (Invoked /\ silent /\ (entered \/ hist # << >>))
    => /\ SchemaLoaded
       /\ start.json.state # "malformed"
       /\ \/ StaleAtStart /\ SchemaKeys # NamesOf(start.json)
          \/ BlankAtStart

\* prompted for a stored name that the schema dropped, nothing blank
C5_Witness ==
    /\ Invoked
    /\ silent
    /\ entered
    /\ hist # << >>
    /\ StaleAtStart
    /\ NamesOf(start.json) \ SchemaKeys # {}
    /\ ~BlankAtStart

\* the i-th key of the schema in byte order
ItemAt(i) ==
    CHOOSE k \in SchemaKeys :
        Cardinality({ j \in SchemaKeys : StrLess(j, k) }) = i - 1

\* the invocation was an interactive session that read a valid index, a
\* value that is not blank, 's' and 'c', and nothing else
EditSaveContinue ==
    /\ Returned /\ entered
    /\ Len(hist) = 4
    /\ ~Atoi(TrimSpace(hist[1])).err
    /\ Atoi(TrimSpace(hist[1])).value \in 1..Cardinality(SchemaKeys)
    /\ TrimSpace(hist[2]) # << >>
    /\ ToLower(TrimSpace(hist[3])) = <<"s">>
    /\ ToLower(TrimSpace(hist[4])) = <<"c">>

\* C6: an interactive session whose input lines are a valid index i, a
\* non-empty value v, 's' and 'c' sets the default of the i-th item to v in
\* memory, leaves the other defaults as they were merged, persists the
\* schema (the store holds v for that key and one entry for each key) and
\* returns without error.
C6_EditSaveContinuePersists ==
    EditSaveContinue =>
        LET k == ItemAt(Atoi(TrimSpace(hist[1])).value)
            v == TrimSpace(hist[2])
        IN  /\ result = "ok"
            /\ configMap[k].Default = v
            /\ \A j \in SchemaKeys \ {k} :
                   configMap[j].Default = MergedValue(start.json, j)
            /\ DOMAIN configMap = SchemaKeys
            /\ HoldsExactly(jsonOutput, configMap)
            /\ LastValue(jsonOutput, k) = v
            /\ saved = 1

\* an edit of the second of two items, typed with surrounding blanks, that
\* replaced a different stored or declared value
C6_Witness ==
    /\ EditSaveContinue
    /\ Cardinality(SchemaKeys) = 2
    /\ hist[1] = <<"2">>
    /\ hist[2] = <<" ", "w", " ">>
    /\ ItemAt(2) = <<"a">>
    /\ MergedValue(start.json, <<"a">>) = <<"v">>
    /\ jsonOutput # start.json

\* no line the session has read is the save command
NoSaveCommand ==
    \A i \in 1..Len(hist) : ToLower(TrimSpace(hist[i])) # <<"s">>

\* the next step reads 'c' at the prompt of the editor
ReadsContinue ==
    /\ pc = "prompt"
    /\ stdin # << >>
    /\ ToLower(TrimSpace(Head(stdin))) = <<"c">>

\* C7: in an interactive session that contains no 's' command the store and
\* the environment file are the same after the session as before it,
\* whatever was edited in memory, and 'c' returns success without writing.
C7_ContinueIsNotSave ==
    /\ [](Invoked /\ entered /\ NoSaveCommand => FilesUntouched)
    /\ [][ReadsContinue =>
              /\ pc' = "idle"
              /\ result' = "ok"
              /\ UNCHANGED << jsonOutput, envOutput, outputModTime >>]_vars

\* a session that edited a default in memory and returned by 'c' without
\* saving
C7_Witness ==
    /\ Returned /\ entered /\ NoSaveCommand
    /\ result = "ok"
    /\ Len(hist) >= 3
    /\ \E k \in SchemaKeys :
           configMap[k].Default # MergedValue(start.json, k)
    /\ FilesUntouched

\* C8: compareConfigs is true exactly when some schema key is absent from
\* the stored names or some stored name is absent from the schema keys, that
\* is exactly when the two key sets differ; the values have no part in it.
C8_CompareIsKeySetDifference ==
    out.fn = "compareConfigs" =>
        LET schemaKeys == DOMAIN args.configMap
            storedNames == DOMAIN args.existingValues
        IN  /\ out.value = (schemaKeys # storedNames)
            /\ out.value = (\/ schemaKeys \ storedNames # {}
                            \/ storedNames \ schemaKeys # {})

\* schema keys {B, a} against stored names {B, C, a}: C is an orphan
C8_Witness ==
    /\ out.fn = "compareConfigs"
    /\ out.value = TRUE
    /\ DOMAIN args.configMap = Keys
    /\ DOMAIN args.existingValues = FnKeys

\* C9: checkForMissingValues returns exactly the schema keys whose default
\* is the empty string, each once; an item with a non-empty default is never
\* reported.
C9_MissingAreTheBlankDefaults ==
    out.fn = "checkForMissingValues" =>
        LET blank == { k \in DOMAIN args.configMap :
                          args.configMap[k].Default = << >> }
        IN  /\ { out.value[i] : i \in 1..Len(out.value) } = blank
            /\ Len(out.value) = Cardinality(blank)

\* two blank defaults and one that is not
C9_Witness ==
    /\ out.fn = "checkForMissingValues"
    /\ Len(out.value) = 2
    /\ DOMAIN args.configMap = FnKeys

\* C10: updateConfigMapWithExistingValues sets the default of every schema
\* key present in the stored mapping M to M[key], leaves the default of
\* every other schema key unchanged, adds and removes no key, and leaves
\* every other field of every item unchanged.
C10_MergeSetsStoredDefaultsOnly ==
    out.fn = "updateConfigMapWithExistingValues" =>
        /\ DOMAIN out.value = DOMAIN args.configMap
        /\ \A k \in DOMAIN args.configMap :
               /\ out.value[k].Default =
                      IF k \in DOMAIN args.existingValues
                      THEN args.existingValues[k]
                      ELSE args.configMap[k].Default
               /\ [out.value[k] EXCEPT !.Default = << >>] =
                      [args.configMap[k] EXCEPT !.Default = << >>]

\* a merge that overwrites a declared default, leaves the item the store
\* does not name and ignores a stored name the schema does not have
C10_Witness ==
    /\ out.fn = "updateConfigMapWithExistingValues"
    /\ DOMAIN args.configMap = Keys
    /\ DOMAIN args.existingValues = { <<"a">>, <<"C">> }
    /\ args.configMap[<<"a">>].Default = <<"v">>
    /\ args.existingValues[<<"a">>] = <<"w">>
    /\ out.value[<<"a">>].Default = <<"w">>
    /\ out.value[<<"B">>] = args.configMap[<<"B">>]

\* C11: after a saveConfig of a schema S that succeeded, loading the stored
\* values and merging them into the schema loaded afresh from its file (the
\* same keys, the declared defaults, S itself included) succeeds and yields,
\* for every key present in both, the default S had when it was saved.
C11_SaveThenLoadReproducesDefaults ==
    (saved = 1 /\ out.fn # "none") =>
        /\ out.fn = "merge"
        /\ \A k \in DOMAIN configMap \cap DOMAIN out.value :
               out.value[k].Default = configMap[k].Default

\* a schema of two keys, one default blank and one not, identical to the
\* schema of its file, saved over a store that named other things
C11_Witness ==
    /\ saved = 1
    /\ out.fn = "merge"
    /\ inputFile.items = configMap
    /\ DOMAIN out.value = Keys
    /\ configMap[<<"a">>].Default = <<"v">>
    /\ configMap[<<"B">>].Default = << >>
    /\ NamesOf(start.json) = { <<"C">> }

\* C12: after a saveConfig that succeeded the store holds one pair per key
\* of the schema in memory, its Value the item's default, and nothing else:
\* the names and the repeated entries of the store before are gone.
C12_SaveRewritesWholeStore ==
    saved = 1 =>
        /\ HoldsExactly(jsonOutput, configMap)
        /\ \A i \in 1..Len(jsonOutput.pairs) :
           \A j \in 1..Len(jsonOutput.pairs) :
               jsonOutput.pairs[i].Name = jsonOutput.pairs[j].Name => i = j

\* a save of a schema with a blank default over a store that held a name
\* twice, or a name the schema does not have
C12_Witness ==
    /\ saved = 1
    /\ Len(start.json.pairs) = 2
    /\ \/ start.json.pairs[1].Name = start.json.pairs[2].Name
       \/ <<"C">> \in NamesOf(start.json)
    /\ DOMAIN configMap = Keys
    /\ configMap[<<"B">>].Default = << >>

OneLineDefaults(m) ==
    \A k \in Exported(m) :
        \A i \in 1..Len(m[k].Default) : m[k].Default[i] # "\n"

C14_NoExportKeepsEnvFile ==
    (called = 1 /\ Exported(configMap) = {}) =>
        /\ envOutput = start.env
        /\ denied \cap {"json", "jsonWrite"} = {} =>
               /\ result = "ok"
               /\ HoldsExactly(jsonOutput, configMap)

\* the store is rewritten and the old environment file keeps its line
C14_Witness ==
    /\ called = 1
    /\ Exported(configMap) = {}
    /\ DOMAIN configMap = Keys
    /\ start.env = StaleEnv
    /\ envOutput = StaleEnv
    /\ saved = 1
    /\ jsonOutput # start.json

\* saveConfig wrote the store and failed on the environment file
EnvFileFailed ==
    /\ called = 1
    /\ Exported(configMap) # {}
    /\ denied \cap {"json", "jsonWrite"} = {}
    /\ denied \cap {"env", "envWrite"} # {}

\* a is a prefix of b and shorter
ProperPrefix(a, b) == Len(a) < Len(b) /\ a = SubSeq(b, 1, Len(a))

\* C17 as stated: when saveConfig writes the store and then fails to create
\* or to write the environment file, it returns an error, the store holds the
\* new values and the environment file has its previous content.
C17_EnvFailureLeavesEnvStale ==
    EnvFileFailed =>
        /\ result = "error"
        /\ HoldsExactly(jsonOutput, configMap)
        /\ envOutput = start.env

\* C17 amended: it returns an error and the store holds the new values; the
\* environment file has its previous content when it could not be created,
\* and when it was created and the write failed it exists, truncated, with
\* less than the new content.
C17_EnvFailureNoRollback ==
    EnvFileFailed =>
        /\ result = "error"
        /\ HoldsExactly(jsonOutput, configMap)
        /\ "env" \in denied => envOutput = start.env
        /\ "envWrite" \in denied =>
               /\ envOutput.exists
               /\ \E order \in Perms(DOMAIN configMap) :
                      ProperPrefix(envOutput.content,
                                   Join(EnvLines(configMap, order), <<"\n">>))

\* the environment file could not be created: the new store, the old line
C17_Witness ==
    /\ EnvFileFailed
    /\ "env" \in denied
    /\ start.env = StaleEnv
    /\ envOutput = StaleEnv
    /\ jsonOutput # start.json
    /\ DOMAIN configMap = Keys

\* C15: reading a store in which a Name occurs several times yields the
\* Value of its last occurrence, and a collect against a missing store file
\* is no error: it goes on with an empty mapping, so that the merge changes
\* no default of the schema.
C15_LastPairWinsAndNoStoreIsEmpty ==
    (Invoked /\ SchemaLoaded /\ hist = << >>) =>
        /\ DOMAIN configMap = SchemaKeys
        /\ \A k \in SchemaKeys :
               configMap[k].Default =
                   IF k \in NamesOf(start.json) THEN LastValue(start.json, k)
                   ELSE inputFile.items[k].Default
        /\ start.json.state = "absent" =>
               /\ configMap = inputFile.items
               /\ result = "error" => entered

\* the store names "a" twice with two values: the second is merged
C15_Witness ==
    /\ Invoked /\ SchemaLoaded /\ hist = << >>
    /\ Len(start.json.pairs) = 2
    /\ start.json.pairs[1] = [Name |-> <<"a">>, Value |-> <<"o">>]
    /\ start.json.pairs[2] = [Name |-> <<"a">>, Value |-> <<"w">>]
    /\ <<"a">> \in SchemaKeys
    /\ configMap[<<"a">>].Default = <<"w">>

\* the schema file is missing or malformed, or the store is malformed
LoadFails ==
    \/ ~SchemaLoaded
    \/ start.json.state = "malformed"

\* C16: when the schema file does not exist or is malformed, or the store
\* file is malformed, CollectConfig, silent or not, returns an error, reads
\* no input and leaves the store and the environment file as they were.
C16_LoadErrorAbortsBeforeWrite ==
    (Invoked /\ LoadFails) =>
        /\ Returned
        /\ result = "error"
        /\ ~entered
        /\ hist = << >>
        /\ called = 0
        /\ FilesUntouched

\* a silent collect on a schema that loads and a store that does not,
\* with input waiting and an environment file in place
C16_Witness ==
    /\ Invoked /\ LoadFails
    /\ silent
    /\ SchemaLoaded
    /\ SchemaKeys = Keys
    /\ stdin # << >>
    /\ envOutput = StaleEnv
    /\ result = "error"

\* a DeleteConfig that was not silent found both output files, which can be
\* removed, read one line and returned
ConfirmedOrNot ==
    /\ Returned
    /\ ~silent
    /\ Exists(start.json) /\ start.env.exists
    /\ denied = {}
    /\ Len(hist) = 1

BothRemoved == ~Exists(jsonOutput) /\ ~envOutput.exists

C19_SilentDeleteAndNothingToDo ==
    /\ (Invoked /\ silent /\ denied = {}) =>
           /\ Returned
           /\ result = "ok"
           /\ hist = << >>
           /\ BothRemoved
    /\ (Invoked /\ ~Exists(start.json) /\ ~start.env.exists) =>
           /\ Returned
           /\ result = "ok"
           /\ hist = << >>
           /\ FilesUntouched

\* a silent deletion of both files with a line waiting on the input stream
C19_Witness ==
    /\ Returned
    /\ silent
    /\ denied = {}
    /\ start.json = OneStore
    /\ start.env = StaleEnv
    /\ BothRemoved
    /\ Len(log) = 1
    /\ stdin # << >>

\* C20: internal/config writes nothing to standard output, in collect and in
\* delete; its prompts and progress text go to standard error.
C20_CoreWritesNothingToStdout == stdout = << >>

\* ------------------------------------------------------------------- C21
\* the schema path given to the command that ran
OwnJSONFile ==
    IF args.cmd = "collect" THEN args.collectJSONFile
    ELSE args.deleteJSONFile

\* the command has printed its envelope and exited
CommandExited == out # NoCall

\* C21: for both commands, an error of the core yields an envelope with
\* status "error" that carries the error, and a non-zero exit; a success of
\* the core yields an envelope with status "ok" that carries the two output
\* paths resolved from the schema path given to that same command.
C21_EnvelopeMapsCoreResult ==
    CommandExited =>
        LET printed == out.value.printed
            paths == GetOutputFilePaths(OwnJSONFile, args)
        IN  /\ result = "error" =>
                   /\ printed.status = "error"
                   /\ printed.message = result
                   /\ out.value.exit # 0
            /\ result = "ok" =>
                   /\ printed.status = "ok"
                   /\ printed.json_file = paths.json
                   /\ printed.env_file = paths.env

\* ------------------------------------------------------------------- C22
\* the base name of a path with its extension stripped
Stem(path) == TrimSuffix(Base(path), Ext(Base(path)))

\* C22: GetOutputFilePaths returns the same pair for the same input path
\* and project, and the pair depends only on the project name and on the
\* base name of the input file without its extension: two calls of a
\* behaviour that agree on these return the same store and environment file.
C22_OutputPathsAreDeterministic ==
    \A i \in 1..Len(out) : \A j \in 1..Len(out) :
        /\ ( /\ out[i].inputJSONFile = out[j].inputJSONFile
             /\ out[i].projectName = out[j].projectName )
           => out[i].paths = out[j].paths
        /\ ( /\ out[i].projectName = out[j].projectName
             /\ Stem(out[i].inputJSONFile) = Stem(out[j].inputJSONFile) )
           => out[i].paths = out[j].paths

\* two schema files of the same base name in two directories of one project
\* are resolved, by processes started in two directories, to the same files
C22_Witness ==
    /\ Len(out) = 2
    /\ out[1].inputJSONFile = AJson
    /\ out[1].pwd = SlashR
    /\ out[2].inputJSONFile = AJson
    /\ out[2].pwd = SlashRD
    /\ out[1].projectName = out[2].projectName
    /\ ~out[1].paths.err
    /\ out[1].paths = out[2].paths
    /\ out[1].paths.json =
           <<"/", "h", "/">> \o DotRepoConfig
               \o <<"/", "r", "/", ".", "a">> \o ValuesJSON

\* ------------------------------------------------------------------- C23
\* interactiveConfig returns in this step
SessionEnds == pc \in {"prompt", "value"} /\ pc' = "idle"

\* the step reads the line 'c' and the session returns nil
EndsOnContinue ==
    /\ pc = "prompt"
    /\ stdin # << >>
    /\ ToLower(TrimSpace(Head(stdin))) = <<"c">>
    /\ result' = "ok"

\* the step finds the input stream at its end and the session returns the
\* error
EndsOnReadFailure == stdin = << >> /\ result' = "error"

\* the step reads the line 's', saveConfig fails and the session returns
\* the error
EndsOnFailedSave ==
    /\ pc = "prompt"
    /\ stdin # << >>
    /\ ToLower(TrimSpace(Head(stdin))) = <<"s">>
    /\ called' = called + 1
    /\ saved' = saved
    /\ result' = "error"

ReadsSave ==
    /\ pc = "prompt"
    /\ stdin # << >>
    /\ ToLower(TrimSpace(Head(stdin))) = <<"s">>

\* C24: after 's' succeeds the store equals the schema in memory at that
\* moment and the loop goes on to read commands; every other step of the
\* session leaves the output files alone, so that what is edited after the
\* last 's' is in memory only and absent from the store when 'c' ends the
\* session.
C24_SaveKeepsSessionOpen ==
    /\ [][ReadsSave /\ saved' = saved + 1 =>
              /\ HoldsExactly(jsonOutput', configMap)
              /\ configMap' = configMap
              /\ pc' = "prompt"
              /\ result' = "none"
              /\ log' = log]_vars
    /\ [][(entered /\ pc # "idle" /\ ~ReadsSave) =>
              /\ jsonOutput' = jsonOutput
              /\ envOutput' = envOutput
              /\ outputModTime' = outputModTime]_vars

\* a session that saved, then edited "a" from v to w, and ended with 'c':
\* the store still holds v
C24_Witness ==
    /\ Returned /\ entered
    /\ result = "ok"
    /\ hist = << <<"s">>, <<"2">>, <<"w">>, <<"c">> >>
    /\ saved = 1
    /\ <<"a">> \in SchemaKeys
    /\ configMap[<<"a">>].Default = <<"w">>
    /\ LastValue(jsonOutput, <<"a">>) = <<"v">>
    /\ Len(jsonOutput.pairs) = 2

\* ------------------------------------------------------------------- C25
\* the invocation was an interactive session that read a valid index, a
\* value that is not blank and 's', and then found the input at its end
EditSaveEndOfInput ==
    /\ Returned /\ entered
    /\ Len(hist) = 3
    /\ ~Atoi(TrimSpace(hist[1])).err
    /\ Atoi(TrimSpace(hist[1])).value \in 1..Cardinality(SchemaKeys)
    /\ TrimSpace(hist[2]) # << >>
    /\ ToLower(TrimSpace(hist[3])) = <<"s">>
    /\ stdin = << >>
    /\ saved = 1

\* C25: an interactive session whose input is a valid index, a value that
\* is not empty and 's', after which the input ends without a 'c', returns
\* without error with the default of the item updated.
C25_EndOfInputAfterSaveIsNoError ==
    EditSaveEndOfInput =>
        /\ result = "ok"
        /\ configMap[ItemAt(Atoi(TrimSpace(hist[1])).value)].Default
               = TrimSpace(hist[2])

\* ------------------------------------------------------------------- C26
\* the editor is in its loop
InSession == entered /\ pc \in {"prompt", "value"}

\* the number of items of the schema in memory
ItemCount == Cardinality(DOMAIN configMap)

\* the step reads, at the prompt, a line that is neither of the commands
\* 's' and 'c' as the loop takes them (trimmed, in either case) nor an
\* integer of 1..ItemCount
ReadsInvalid ==
    /\ entered
    /\ pc = "prompt"
    /\ stdin # << >>
    /\ LET line == TrimSpace(Head(stdin))
       IN  /\ ToLower(line) \notin { <<"s">>, <<"c">> }
           /\ \/ Atoi(line).err
              \/ Atoi(line).value < 1
              \/ Atoi(line).value > ItemCount

\* C26: an input line that is not 's', not 'c' and not an integer in [1, N]
\* (any number when the schema is empty, 0 and N+1 included) leaves the
\* schema in memory, the store and the environment file unchanged, consumes
\* exactly that line, and the loop goes on to the next command.
C26_InvalidInputChangesNothing ==
    [][ReadsInvalid =>
           /\ configMap' = configMap
           /\ jsonOutput' = jsonOutput
           /\ envOutput' = envOutput
           /\ outputModTime' = outputModTime
           /\ stdin' = Tail(stdin)
           /\ pc' = "prompt"
           /\ result' = "none"
           /\ log' = log]_vars

\* a session over one item has read 0, N+1 and an empty line and waits for
\* the next command with nothing changed
C26_Witness ==
    /\ InSession
    /\ pc = "prompt"
    /\ ItemCount = 1
    /\ hist = << <<"0">>, <<"2">>, << >> >>
    /\ stdin # << >>
    /\ \A k \in SchemaKeys : configMap[k].Default = MergedValue(start.json, k)
    /\ FilesUntouched

\* ------------------------------------------------------------------- C27
\* the step reads, at the prompt, an integer of 1..ItemCount
ReadsIndex ==
    /\ entered
    /\ pc = "prompt"
    /\ stdin # << >>
    /\ ToLower(TrimSpace(Head(stdin))) \notin { <<"s">>, <<"c">> }
    /\ ~Atoi(TrimSpace(Head(stdin))).err
    /\ Atoi(TrimSpace(Head(stdin))).value \in 1..ItemCount

\* the step reads the replacement of the selected item
ReadsReplacement == entered /\ pc = "value" /\ stdin # << >>

\* C27: throughout a session the index i of 1..N denotes the i-th schema
\* key in byte-wise lexicographic order, the key set and N never change,
\* and an update through index i changes the default of that item only: no
\* other item and no other field.
C27_IndexSelectsBySortedKey ==
    /\ [](InSession =>
              /\ DOMAIN configMap = SchemaKeys
              /\ Len(keys) = Cardinality(SchemaKeys)
              /\ \A i \in 1..Len(keys) : keys[i] = ItemAt(i))
    /\ [][InSession =>
              /\ DOMAIN configMap' = DOMAIN configMap
              /\ keys' = keys]_vars
    /\ [][ReadsIndex =>
              /\ pc' = "value"
              /\ key' = ItemAt(Atoi(TrimSpace(Head(stdin))).value)]_vars
    /\ [][ReadsReplacement =>
              \A k \in DOMAIN configMap :
                  configMap'[k] =
                      IF k = key /\ TrimSpace(Head(stdin)) # << >>
                      THEN [configMap[k] EXCEPT
                                !.Default = TrimSpace(Head(stdin))]
                      ELSE configMap[k]]_vars

\* in a session over two items, index 2 has replaced the default of "a",
\* the second key in byte order, and "B" is as it was declared
C27_Witness ==
    /\ InSession
    /\ pc = "prompt"
    /\ SchemaKeys = Keys
    /\ hist = << <<"2">>, <<" ", "w", " ">> >>
    /\ key = <<"a">>
    /\ MergedValue(start.json, <<"a">>) = <<"v">>
    /\ configMap[<<"a">>] =
           [inputFile.items[<<"a">>] EXCEPT !.Default = <<"w">>]
    /\ configMap[<<"B">>] = inputFile.items[<<"B">>]

\* ------------------------------------------------------------------- C28
\* the line is empty or holds white space only
Blank(line) == \A i \in 1..Len(line) : IsSpace(line[i])

\* C28: after a valid index, a replacement line that is empty or holds
\* white space only leaves the default of that item, every other item and
\* the store unchanged.
C28_EmptyReplacementKeepsValue ==
    [][ReadsReplacement /\ Blank(Head(stdin)) =>
           /\ configMap' = configMap
           /\ jsonOutput' = jsonOutput
           /\ envOutput' = envOutput
           /\ outputModTime' = outputModTime
           /\ pc' = "prompt"]_vars

\* a replacement of two blanks for the first item was read and the item has
\* the default it had
C28_Witness ==
    /\ InSession
    /\ pc = "prompt"
    /\ hist = << <<"1">>, <<" ", " ">> >>
    /\ SchemaKeys = { <<"a">> }
    /\ key = ItemAt(1)
    /\ configMap[key].Default = <<"v">>
    /\ \A k \in SchemaKeys : configMap[k].Default = MergedValue(start.json, k)
    /\ FilesUntouched

\* ------------------------------------------------------------------- C29
\* the invocation is not silent and found a schema and a store it could
\* load, or no store
NonSilentLoaded ==
    /\ Invoked
    /\ ~silent
    /\ SchemaLoaded
    /\ start.json.state # "malformed"

\* C29: when the silent flag is false, CollectConfig with a loadable schema
\* and store enters the interactive path after the merge and writes nothing
\* before the first user command, whatever the store, the modification
\* times, the key differences and the blank values.
C29_NonSilentAlwaysPrompts ==
    NonSilentLoaded =>
        /\ entered
        /\ DOMAIN configMap = SchemaKeys
        /\ hist = << >> =>
               /\ called = 0
               /\ FilesUntouched
               /\ \A k \in SchemaKeys :
                      configMap[k].Default = MergedValue(start.json, k)

\* a non-silent invocation waits at its first prompt although the store is
\* not older than the schema file, holds the schema's keys and nothing is
\* blank
C29_Witness ==
    /\ NonSilentLoaded
    /\ pc = "prompt"
    /\ hist = << >>
    /\ SchemaKeys = Keys
    /\ Loadable(start.json)
    /\ NamesOf(start.json) = SchemaKeys
    /\ ~StaleAtStart
    /\ ~BlankAtStart
    /\ FilesUntouched

\* ------------------------------------------------------------------- C30
\* the invocation is silent and found a schema, a store that is not older
\* than the schema file, and no blank value after the merge
SilentUpToDate ==
    /\ Invoked
    /\ silent
    /\ SchemaLoaded
    /\ Loadable(start.json)
    /\ ~(inputModTime > start.time)
    /\ ~BlankAtStart

SilentStaleSameKeys ==
    /\ Invoked
    /\ silent
    /\ SchemaLoaded
    /\ start.json.state # "malformed"
    /\ StaleAtStart
    /\ NamesOf(start.json) = SchemaKeys

\* C31: when the store is absent or the schema file is strictly newer than
\* the store, and the key set of the schema equals the stored one, a silent
\* CollectConfig saves the merged schema without prompting and returns
\* success, even when the value of some item is blank.
C31_SilentStaleSameKeysSaves ==
    SilentStaleSameKeys =>
        /\ Returned
        /\ ~entered
        /\ hist = << >>
        /\ result = "ok"
        /\ saved = 1
        /\ DOMAIN configMap = SchemaKeys
        /\ \A k \in SchemaKeys :
               configMap[k].Default = MergedValue(start.json, k)
        /\ HoldsExactly(jsonOutput, configMap)
        /\ outputModTime = now

\* a silent invocation saved over an older store that held both keys, one
\* of them with a blank value
C31_Witness ==
    /\ SilentStaleSameKeys
    /\ Returned
    /\ SchemaKeys = Keys
    /\ start.json.state = "array"
    /\ inputModTime > start.time
    /\ BlankAtStart
    /\ saved = 1
    /\ jsonOutput # start.json

\* ------------------------------------------------------------------- C32
\* the invocation is silent and found a schema, a store that is not older
\* than the schema file, and a blank value after the merge
SilentUpToDateBlank ==
    /\ Invoked
    /\ silent
    /\ SchemaLoaded
    /\ Loadable(start.json)
    /\ ~(inputModTime > start.time)
    /\ BlankAtStart

\* C32: when the store exists, the schema file is not strictly newer than
\* the store and at least one item is blank after the merge, a silent
\* CollectConfig enters the interactive path, and nothing is written unless
\* the user enters 's'.
C32_SilentUpToDateBlankPrompts ==
    SilentUpToDateBlank =>
        /\ entered
        /\ NoSaveCommand => called = 0 /\ FilesUntouched

\* a silent invocation over an up-to-date store with a blank value has
\* prompted and returned on 'c' with nothing written
C32_Witness ==
    /\ SilentUpToDateBlank
    /\ Returned
    /\ inputModTime = start.time
    /\ NamesOf(start.json) = SchemaKeys
    /\ hist = << <<"c">> >>
    /\ result = "ok"
    /\ FilesUntouched

\* ------------------------------------------------------------------- C33
\* the positions of out at which process p did `event`
EventsOf(p, event) ==
    { i \in 1..Len(out) : out[i].proc = p /\ out[i].event = event }

\* both processes loaded before either wrote the store, each has written
\* it, and both sessions have ended without meeting the end of the input
BothLoadedThenSaved ==
    /\ \A p \in Procs :
           /\ args[p].pc = "done"
           /\ args[p].result # "readError"
           /\ EventsOf(p, "store") # {}
    /\ \A p \in Procs : \A q \in Procs :
           \A i \in EventsOf(p, "load") : \A j \in EventsOf(q, "store") : i < j

\* the process that wrote the store last
LastWriter ==
    LET stores == { i \in 1..Len(out) : out[i].event = "store" }
    IN  out[CHOOSE i \in stores : \A j \in stores : j <= i].proc

ReportedMissing(merged) ==
    { { checkForMissingValues(merged, order)[i] :
            i \in 1..Len(checkForMissingValues(merged, order)) } :
          order \in Perms(DOMAIN merged) }

\* C34: whenever the stored mapping holds a name equal to a schema key, the
\* merged default of that key is the stored value, whatever the schema file
\* declared; a stored empty value therefore replaces a non-empty declared
\* default, and checkForMissingValues then reports that key as missing.
C34_StoredValuesShadowDefaults ==
    out.fn = "updateConfigMapWithExistingValues" =>
        \A k \in DOMAIN args.configMap \cap DOMAIN args.existingValues :
            /\ out.value[k].Default = args.existingValues[k]
            /\ args.existingValues[k] = << >> =>
                   \A missing \in ReportedMissing(out.value) : k \in missing

\* the store holds an empty value for a, whose declared default is v: the
\* merged default is empty and a is reported as missing
C34_Witness ==
    /\ out.fn = "updateConfigMapWithExistingValues"
    /\ <<"a">> \in DOMAIN args.configMap \cap DOMAIN args.existingValues
    /\ args.configMap[<<"a">>].Default = <<"v">>
    /\ args.existingValues[<<"a">>] = << >>
    /\ out.value[<<"a">>].Default = << >>
    /\ \A missing \in ReportedMissing(out.value) : <<"a">> \in missing


\* ------------------------------------------------------------------- C35
\* the items of m that checkForMissingValues reports: the default is empty
MissingItems(m) == { k \in DOMAIN m : m[k].Default = << >> }

\* C35: no step of an interactive session empties a default: an item whose
\* default is not empty keeps a default that is not empty, no item is added,
\* and so the set of missing items never grows while the session lasts.
C35_EditorCannotBlankValue ==
    [][InSession =>
           /\ DOMAIN configMap' = DOMAIN configMap
           /\ \A k \in DOMAIN configMap :
                  configMap[k].Default # << >> => configMap'[k].Default # << >>
           /\ MissingItems(configMap') \subseteq MissingItems(configMap)]_vars

\* the empty line was read as the replacement of "a", the second of two
\* items: "a" has a default still and "B" alone is missing
C35_Witness ==
    /\ InSession
    /\ pc = "prompt"
    /\ hist = << <<"2">>, << >> >>
    /\ SchemaKeys = Keys
    /\ key = <<"a">>
    /\ configMap[<<"a">>].Default # << >>
    /\ MissingItems(configMap) = { <<"B">> }

\* ------------------------------------------------------------------- C36
\* C36: a line that parses as an index of 1..N is followed by the read of a
\* replacement; the line read then is consumed as the replacement whatever
\* it spells: the loop returns to the prompt, nothing is saved, no file is
\* written, the session does not end, and a replacement that is not blank,
\* 's' and 'c' included, becomes the default of the selected item.
C36_LineAfterIndexIsValue ==
    /\ [][ReadsIndex => pc' = "value" /\ stdin' = Tail(stdin)]_vars
    /\ [][ReadsReplacement =>
              /\ stdin' = Tail(stdin)
              /\ hist' = Append(hist, Head(stdin))
              /\ pc' = "prompt"
              /\ result' = result /\ log' = log
              /\ saved' = saved /\ called' = called
              /\ jsonOutput' = jsonOutput
              /\ envOutput' = envOutput
              /\ outputModTime' = outputModTime
              /\ ~Blank(Head(stdin)) =>
                     configMap'[key].Default = TrimSpace(Head(stdin))]_vars

\* the replacement 's' was read for the first item: the item has the default
\* s, nothing was saved and the session goes on to read 'c'
C36_Witness ==
    /\ InSession
    /\ pc = "prompt"
    /\ hist = << <<"1">>, <<"s">> >>
    /\ stdin = << <<"c">> >>
    /\ SchemaKeys # {}
    /\ configMap[key].Default = <<"s">>
    /\ saved = 0 /\ called = 0
    /\ FilesUntouched


\* ------------------------------------------------------------------- C37
\* the invocation that returned found both output files, went on to delete
\* them (it was silent, or 'yes' was typed), and the environment file alone
\* cannot be removed
DeletesStoreOnly ==
    /\ Returned
    /\ Exists(start.json)
    /\ start.env.exists
    /\ denied = { "envRemove" }
    /\ \/ silent
       \/ hist # << >> /\ Confirmed(TrimSpace(hist[1]))

\* C37: when DeleteConfig removes the store and the removal of the
\* environment file then fails, it returns an error, the store is gone and
\* is not restored, and the environment file is as it was.
C37_DeletionIsNotAtomic ==
    DeletesStoreOnly =>
        /\ result = "error"
        /\ ~Exists(jsonOutput)
        /\ jsonOutput = AbsentStore
        /\ envOutput = start.env

\* 'yes' was typed to a deletion of a store and an environment file of which
\* the second cannot be removed: an error, the store gone, the other left
C37_Witness ==
    /\ DeletesStoreOnly
    /\ ~silent
    /\ start.json = OneStore
    /\ start.env = StaleEnv
    /\ result = "error"
    /\ jsonOutput = AbsentStore
    /\ envOutput = StaleEnv

====
